---------------------------- MODULE Spec2Model ----------------------------
(***************************************************************************)
(* Model of the top-tier-financial-solutions API (FastAPI + SQLModel).     *)
(*                                                                         *)
(* The routers under src/api/routers are translated handler by handler.    *)
(* The module src/api/auth.py they import (authenticate_user,              *)
(* create_access_token, get_current_user, get_password_hash,               *)
(* ACCESS_TOKEN_EXPIRE_MINUTES) is not among the sources; it is modelled   *)
(* from sections 4.1, 4.2 and 4.4 of the specification and kept apart in   *)
(* the first part of the module.                                           *)
(*                                                                         *)
(* Optional values (a missing Authorization header, no token in a          *)
(* response, None) are sets with at most one element.                      *)
(***************************************************************************)
EXTENDS Integers, Sequences, FiniteSets, TLC

(***************************************************************************)
(* Bounds of the model.                                                    *)
(***************************************************************************)
\* Instants are minutes 0..MaxTime.
MaxTime == 2
\* Tokens the callers keep for later requests.
MaxTokens == 1
\* Rows ever created in the resource tables (ids 1..MaxId).
MaxId == 1
\* Time-to-live of a token in minutes; the configured value is set in
\* api/auth.py, the model uses a short one so that tokens expire.
ACCESS_TOKEN_EXPIRE_MINUTES == 2

\* Callers that can have a register request under way at the same time.
MaxCallers == 2
\* Rows a table holds when the administrator starts to work on it.
MaxRows == 2

(***************************************************************************)
(* Program constants.                                                      *)
(***************************************************************************)
MIN_PASSWORD_LENGTH == 8
HTTP_200_OK == 200
HTTP_201_CREATED == 201
HTTP_204_NO_CONTENT == 204
HTTP_400_BAD_REQUEST == 400
HTTP_401_UNAUTHORIZED == 401
HTTP_404_NOT_FOUND == 404
HTTP_409_CONFLICT == 409
HTTP_500_INTERNAL_SERVER_ERROR == 500

(***************************************************************************)
(* Input values.                                                           *)
(***************************************************************************)
Emails == {"a@x.com", "b@x.com"}
\* 7, 8 and 9 characters.
Passwords == {"short7!", "exactly8", "longpass9"}
\* (full_name, role) of a RegisterRequest; role is left out or given.
Profiles == {<<"Ann", {}>>, <<"Bob", {"editor"}>>}
Instants == 0..(MaxTime + ACCESS_TOKEN_EXPIRE_MINUTES + 1)

(***************************************************************************)
(* api/auth.py, modelled from the specification.                           *)
(***************************************************************************)
\* The process-wide signing secret, and a key that is not the secret.
SECRET_KEY == "server-secret"
OtherKey == "not-the-secret"

\* A keyed MAC over the payload: two MACs agree iff key and payload agree.
Mac(key, sub, exp) == <<key, sub, exp>>

\* 4.1 hash: a salted one-way digest; the salt is embedded in the digest.
Digest(salt, plaintext) == <<"H", salt, plaintext>>

get_password_hash(plaintext, salt) ==
    [salt |-> salt, digest |-> Digest(salt, plaintext)]

\* 4.1 verify: rehash with the embedded salt and compare.
verify_password(plaintext, hashed) ==
    hashed.digest = Digest(hashed.salt, plaintext)

\* 4.2 issue: {subject, expires_at = now + ttl} plus the signature.
create_access_token(sub, expires_delta, t) ==
    [sub |-> sub, exp |-> t + expires_delta,
     sig |-> Mac(SECRET_KEY, sub, t + expires_delta)]

\* Variant of decode_token that never reports Expired.
decode_token_NoExpiry(tok, t) ==
    IF tok.sig # Mac(SECRET_KEY, tok.sub, tok.exp)
    THEN [ok |-> FALSE, reason |-> "Malformed", sub |-> ""]
    ELSE [ok |-> TRUE, reason |-> "", sub |-> tok.sub]

\* Variant of decode_token that still accepts at the expiry instant itself.
decode_token_AcceptsAtExpiry(tok, t) ==
    IF tok.sig # Mac(SECRET_KEY, tok.sub, tok.exp)
    THEN [ok |-> FALSE, reason |-> "Malformed", sub |-> ""]
    ELSE IF t > tok.exp
         THEN [ok |-> FALSE, reason |-> "Expired", sub |-> ""]
         ELSE [ok |-> TRUE, reason |-> "", sub |-> tok.sub]

\* Variant of decode_token whose signature check covers the key and the
\* subject but not the expiry.
decode_token_ExpiryUnsigned(tok, t) ==
    IF tok.sig[1] # SECRET_KEY \/ tok.sig[2] # tok.sub
    THEN [ok |-> FALSE, reason |-> "Malformed", sub |-> ""]
    ELSE IF t >= tok.exp
         THEN [ok |-> FALSE, reason |-> "Expired", sub |-> ""]
         ELSE [ok |-> TRUE, reason |-> "", sub |-> tok.sub]

\* 4.2 validate: Malformed on a wrong signature, Expired when now >= exp,
\* otherwise the subject claim.
decode_token(tok, t) ==
    IF tok.sig # Mac(SECRET_KEY, tok.sub, tok.exp)
    THEN [ok |-> FALSE, reason |-> "Malformed", sub |-> ""]
    ELSE IF t >= tok.exp
         THEN [ok |-> FALSE, reason |-> "Expired", sub |-> ""]
         ELSE [ok |-> TRUE, reason |-> "", sub |-> tok.sub]

\* 4.3 login lookup: exactly one identity by exact email, then verify; the
\* active flag is not consulted.  The result is {} (None) or {user}.
authenticate_user(us, email, password) ==
    {u \in us : u.email = email /\ verify_password(password, u.hashed_password)}

Unauthorized(trace) == [tag |-> "Unauthorized", user |-> {}, trace |-> trace]

\* Variant of get_current_user that does not look at the active flag.
get_current_user_IgnoresActive(us, bearer, t) ==
    IF bearer = {} THEN Unauthorized(<<"present">>)
    ELSE LET tok == CHOOSE k \in bearer : TRUE
             claim == decode_token(tok, t)
         IN IF ~claim.ok THEN Unauthorized(<<"present", "validate">>)
            ELSE LET found == {u \in us : u.email = claim.sub}
                 IN IF found = {}
                    THEN Unauthorized(<<"present", "validate", "reload">>)
                    ELSE [tag |-> "Authorized", user |-> found,
                          trace |-> <<"present", "validate", "reload">>]

\* 4.4 resolve (the request guard).  bearer is {} without an Authorization
\* header, {token} with one.  trace lists the stages passed.
get_current_user(us, bearer, t) ==
    IF bearer = {} THEN Unauthorized(<<"present">>)
    ELSE LET tok == CHOOSE k \in bearer : TRUE
             claim == decode_token(tok, t)
         IN IF ~claim.ok THEN Unauthorized(<<"present", "validate">>)
            ELSE LET found == {u \in us : u.email = claim.sub /\ u.is_active}
                 IN IF found = {}
                    THEN Unauthorized(<<"present", "validate", "reload">>)
                    ELSE [tag |-> "Authorized", user |-> found,
                          trace |-> <<"present", "validate", "reload">>]

\* The rejection the guard raises: 401 with a generic message.
GuardRejection ==
    [status |-> HTTP_401_UNAUTHORIZED,
     detail |-> "Could not validate credentials",
     headers |-> {"WWW-Authenticate: Bearer"}]

(***************************************************************************)
(* State.                                                                  *)
(***************************************************************************)
VARIABLES
    users,        \* table admin_users: the Credential Store
    pages,        \* table pages
    testimonials, \* table testimonials
    faqs,         \* table faq_items
    disclaimers,  \* table disclaimers
    forms,        \* table consultation_requests
    nextId,       \* next fresh id of a resource row (uuid4)
    now,          \* the clock, in minutes
    issued,       \* tokens the callers hold, each with its instant of issue
    registered,   \* (email, password) pairs of the successful registrations
    last,         \* the last request and its response
    inflight      \* per caller: the register request it has under way

store == <<pages, testimonials, faqs, disclaimers, forms, nextId>>
vars == <<users, pages, testimonials, faqs, disclaimers, forms, nextId,
          now, issued, registered, last, inflight>>

\* A response: the guard's verdict, status, detail, headers, the token of
\* an AuthResponse, its expires_in, and the rows of the body.
Response(auth, status, detail, headers, token, expires_in, body) ==
    [auth |-> auth, status |-> status, detail |-> detail, headers |-> headers,
     token |-> token, expires_in |-> expires_in, body |-> body]

Rejected(rej) ==
    Response("Unauthorized", rej.status, rej.detail, rej.headers, {}, 0, <<>>)

\* A request (operation, Authorization header) with its response.  List
\* responses carry total, page and limit besides.
Exchange(op, bearer, response) == [op |-> op, bearer |-> bearer] @@ response

Idle == Exchange("none", {}, Response("NotGuarded", 0, "", {}, {}, 0, <<>>))

\* The callers, and a caller with no register request under way.  A request
\* is "checked" once it has passed the select and the two checks and is
\* "done" once it has been answered.
Callers == 1..MaxCallers
NoRequest == [pc |-> "idle", request |-> {}, passed |-> FALSE, response |-> {}]

(***************************************************************************)
(* src/api/routers/auth.py                                                 *)
(***************************************************************************)
\* AuthResponse(access_token, expires_in = ACCESS_TOKEN_EXPIRE_MINUTES * 60);
\* token_type keeps its default.
AuthResponse(auth, status, access_token) ==
    Response(auth, status, "", {}, {access_token},
             ACCESS_TOKEN_EXPIRE_MINUTES * 60, <<>>)
        @@ [token_type |-> "bearer"]

\* The salt of a new digest is random: a value no earlier digest has.
FreshSalt(us) == Cardinality(us) + 1

\* Variant of AdminUser whose is_active defaults to False.
AdminUser_InactiveByDefault(us, email, full_name, hashed_password, role) ==
    [id |-> Cardinality(us) + 1, email |-> email, full_name |-> full_name,
     hashed_password |-> hashed_password, role |-> role, is_active |-> FALSE]

\* AdminUser(email, full_name, hashed_password, role): id is a fresh uuid4,
\* is_active defaults to True.  Rows of admin_users are never deleted.
AdminUser(us, email, full_name, hashed_password, role) ==
    [id |-> Cardinality(us) + 1, email |-> email, full_name |-> full_name,
     hashed_password |-> hashed_password, role |-> role, is_active |-> TRUE]

\* RegisterRequest.role: "admin" when the request leaves it out.
RegisterRole(role) == IF role = {} THEN "admin" ELSE CHOOSE r \in role : TRUE

\* Variant of register_admin_user without the check for an existing user.
register_admin_user_NoExistingCheck(us, email, password, full_name, role, t) ==
    IF Len(password) < MIN_PASSWORD_LENGTH
    THEN [users |-> us,
          response |-> Response("NotGuarded", HTTP_400_BAD_REQUEST,
                           "Password must be at least 8 characters long",
                           {}, {}, 0, <<>>)]
    ELSE LET hashed_password == get_password_hash(password, FreshSalt(us))
             new_user == AdminUser(us, email, full_name, hashed_password,
                                   RegisterRole(role))
             access_token == create_access_token(
                                 new_user.email,
                                 ACCESS_TOKEN_EXPIRE_MINUTES, t)
         IN [users |-> {u \in us : u.email # email} \cup {new_user},
             response |-> AuthResponse("NotGuarded", HTTP_201_CREATED,
                                       access_token)]

\* Variant of register_admin_user that compares the length with <=.
register_admin_user_RejectsMinLength(us, email, password, full_name, role, t) ==
    LET existing_user == {u \in us : u.email = email}
    IN IF existing_user # {}
       THEN [users |-> us,
             response |-> Response("NotGuarded", HTTP_409_CONFLICT,
                              "User with this email already exists",
                              {}, {}, 0, <<>>)]
       ELSE IF Len(password) <= MIN_PASSWORD_LENGTH
       THEN [users |-> us,
             response |-> Response("NotGuarded", HTTP_400_BAD_REQUEST,
                              "Password must be at least 8 characters long",
                              {}, {}, 0, <<>>)]
       ELSE LET hashed_password == get_password_hash(password, FreshSalt(us))
                new_user == AdminUser(us, email, full_name, hashed_password,
                                      RegisterRole(role))
                access_token == create_access_token(
                                    new_user.email,
                                    ACCESS_TOKEN_EXPIRE_MINUTES, t)
            IN [users |-> us \cup {new_user},
                response |-> AuthResponse("NotGuarded", HTTP_201_CREATED,
                                          access_token)]

\* POST /auth/register: the response and the table after the call.
register_admin_user(us, email, password, full_name, role, t) ==
    LET existing_user == {u \in us : u.email = email}
    IN IF existing_user # {}
       THEN [users |-> us,
             response |-> Response("NotGuarded", HTTP_409_CONFLICT,
                              "User with this email already exists",
                              {}, {}, 0, <<>>)]
       ELSE IF Len(password) < MIN_PASSWORD_LENGTH
       THEN [users |-> us,
             response |-> Response("NotGuarded", HTTP_400_BAD_REQUEST,
                              "Password must be at least 8 characters long",
                              {}, {}, 0, <<>>)]
       ELSE LET hashed_password == get_password_hash(password, FreshSalt(us))
                new_user == AdminUser(us, email, full_name, hashed_password,
                                      RegisterRole(role))
                access_token == create_access_token(
                                    new_user.email,
                                    ACCESS_TOKEN_EXPIRE_MINUTES, t)
            IN [users |-> us \cup {new_user},
                response |-> AuthResponse("NotGuarded", HTTP_201_CREATED,
                                          access_token)]

\* Variant of login_admin_user that puts the display name in the claim.
login_admin_user_SubjectFullName(us, email, password, t) ==
    LET user == authenticate_user(us, email, password)
    IN IF user = {}
       THEN Response("NotGuarded", HTTP_401_UNAUTHORIZED,
                     "Incorrect email or password",
                     {"WWW-Authenticate: Bearer"}, {}, 0, <<>>)
       ELSE LET u == CHOOSE x \in user : TRUE
                access_token == create_access_token(
                                    u.full_name, ACCESS_TOKEN_EXPIRE_MINUTES, t)
            IN AuthResponse("NotGuarded", HTTP_200_OK, access_token)

\* Variant of login_admin_user that answers 404 for an unknown email.
login_admin_user_ReportsUnknownEmail(us, email, password, t) ==
    LET user == authenticate_user(us, email, password)
    IN IF \A x \in us : x.email # email
       THEN Response("NotGuarded", HTTP_404_NOT_FOUND, "User not found",
                     {}, {}, 0, <<>>)
       ELSE IF user = {}
       THEN Response("NotGuarded", HTTP_401_UNAUTHORIZED,
                     "Incorrect email or password",
                     {"WWW-Authenticate: Bearer"}, {}, 0, <<>>)
       ELSE LET u == CHOOSE x \in user : TRUE
                access_token == create_access_token(
                                    u.email, ACCESS_TOKEN_EXPIRE_MINUTES, t)
            IN AuthResponse("NotGuarded", HTTP_200_OK, access_token)

\* POST /auth/login
login_admin_user(us, email, password, t) ==
    LET user == authenticate_user(us, email, password)
    IN IF user = {}
       THEN Response("NotGuarded", HTTP_401_UNAUTHORIZED,
                     "Incorrect email or password",
                     {"WWW-Authenticate: Bearer"}, {}, 0, <<>>)
       ELSE LET u == CHOOSE x \in user : TRUE
                access_token == create_access_token(
                                    u.email, ACCESS_TOKEN_EXPIRE_MINUTES, t)
            IN AuthResponse("NotGuarded", HTTP_200_OK, access_token)

\* Variant of refresh_auth_token that copies the expiry of the old token.
refresh_auth_token_KeepsExpiry(us, bearer, t) ==
    LET guard == get_current_user(us, bearer, t)
    IN IF guard.tag # "Authorized" THEN Rejected(GuardRejection)
       ELSE LET current_user == CHOOSE x \in guard.user : TRUE
                old == CHOOSE k \in bearer : TRUE
                access_token == create_access_token(
                                    current_user.email, old.exp - t, t)
            IN AuthResponse("Authorized", HTTP_200_OK, access_token)

\* POST /auth/refresh
refresh_auth_token(us, bearer, t) ==
    LET guard == get_current_user(us, bearer, t)
    IN IF guard.tag # "Authorized" THEN Rejected(GuardRejection)
       ELSE LET current_user == CHOOSE x \in guard.user : TRUE
                access_token == create_access_token(
                                    current_user.email,
                                    ACCESS_TOKEN_EXPIRE_MINUTES, t)
            IN AuthResponse("Authorized", HTTP_200_OK, access_token)

\* Variant of AdminUserResponse that copies the whole row.
AdminUserResponse_WithHash(u) ==
    [id |-> u.id, email |-> u.email, full_name |-> u.full_name,
     role |-> u.role, is_active |-> u.is_active,
     hashed_password |-> u.hashed_password]

\* AdminUserResponse(id, email, full_name, role, is_active)
AdminUserResponse(u) ==
    [id |-> u.id, email |-> u.email, full_name |-> u.full_name,
     role |-> u.role, is_active |-> u.is_active]

\* Variant of get_current_admin_user that reports the role and the active
\* flag an identity has when it is registered without a role.
get_current_admin_user_AsRegistered(us, bearer, t) ==
    LET guard == get_current_user(us, bearer, t)
    IN IF guard.tag # "Authorized" THEN Rejected(GuardRejection)
       ELSE LET current_user == CHOOSE x \in guard.user : TRUE
            IN Response("Authorized", HTTP_200_OK, "", {}, {}, 0,
                        <<AdminUserResponse([current_user EXCEPT
                                               !.role = "admin",
                                               !.is_active = TRUE])>>)

\* GET /auth/users/me
get_current_admin_user(us, bearer, t) ==
    LET guard == get_current_user(us, bearer, t)
    IN IF guard.tag # "Authorized" THEN Rejected(GuardRejection)
       ELSE LET current_user == CHOOSE x \in guard.user : TRUE
            IN Response("Authorized", HTTP_200_OK, "", {}, {}, 0,
                        <<AdminUserResponse(current_user)>>)

(***************************************************************************)
(* src/api/index.py: the handler of the exceptions no route handles, and   *)
(* the auth routes when the session raises.                                *)
(***************************************************************************)
\* What the session raises when the database cannot be reached.
StoreError ==
    [type |-> "OperationalError",
     message |-> "connection to server at db:5432 failed"]

\* Variant of global_exception_handler that answers with str(exc).
global_exception_handler_EchoesError(exc) ==
    Response("Error", HTTP_500_INTERNAL_SERVER_ERROR, exc.message,
             {}, {}, 0, <<>>)

\* @app.exception_handler(Exception): the exception is printed to the log
\* and the response is 500 with a fixed message.
global_exception_handler(exc) ==
    Response("Error", HTTP_500_INTERNAL_SERVER_ERROR, "Internal server error",
             {}, {}, 0, <<>>)

\* Where the session raises during a request: nowhere, at a select of
\* admin_users, or at the commit.
StoreFaults == {"none", "select", "commit"}
ReadFaults == {"none", "select"}

\* The guard selects from admin_users once the token has validated.
ReadsStore(bearer, t) == \E k \in bearer : decode_token(k, t).ok

\* POST /auth/register: the select is the first statement, the commit
\* follows the two checks; neither is inside a try.
app_register_admin_user(us, email, password, full_name, role, t, fault) ==
    LET out == register_admin_user(us, email, password, full_name, role, t)
    IN IF fault = "select" \/ (fault = "commit" /\ out.users # us)
       THEN [users |-> us, response |-> global_exception_handler(StoreError)]
       ELSE out

\* POST /auth/login: authenticate_user selects the user first.
app_login_admin_user(us, email, password, t, fault) ==
    IF fault = "select" THEN global_exception_handler(StoreError)
    ELSE login_admin_user(us, email, password, t)

\* POST /auth/refresh
app_refresh_auth_token(us, bearer, t, fault) ==
    IF fault = "select" /\ ReadsStore(bearer, t)
    THEN global_exception_handler(StoreError)
    ELSE refresh_auth_token(us, bearer, t)

\* GET /auth/users/me
app_get_current_admin_user(us, bearer, t, fault) ==
    IF fault = "select" /\ ReadsStore(bearer, t)
    THEN global_exception_handler(StoreError)
    ELSE get_current_admin_user(us, bearer, t)

\* What session.commit() raises when the INSERT meets the unique index on
\* admin_users.email.
IntegrityError ==
    [type |-> "IntegrityError",
     message |-> "duplicate key value violates unique constraint"]

\* register_admin_user up to its two checks: {} when both pass, otherwise
\* the response raised.
register_check(us, email, password, full_name, role, t) ==
    LET out == register_admin_user(us, email, password, full_name, role, t)
    IN IF out.response.status \in {HTTP_409_CONFLICT, HTTP_400_BAD_REQUEST}
       THEN {out.response}
       ELSE {}

\* Variant of register_commit on a table without the unique index.
register_commit_NoUniqueIndex(us, email, password, full_name, role, t) ==
    LET hashed_password == get_password_hash(password, FreshSalt(us))
        new_user == AdminUser(us, email, full_name, hashed_password,
                              RegisterRole(role))
        access_token == create_access_token(
                            new_user.email, ACCESS_TOKEN_EXPIRE_MINUTES, t)
    IN [users |-> us \cup {new_user},
        response |-> AuthResponse("NotGuarded", HTTP_201_CREATED,
                                  access_token)]

\* register_admin_user from "Create new user" on, run against the table as
\* it is at the commit: the INSERT fails on the unique index of email when
\* a row with the email has been committed since the check, the exception
\* is not caught by the route and the outer handler answers.
register_commit(us, email, password, full_name, role, t) ==
    IF \E u \in us : u.email = email
    THEN [users |-> us, response |-> global_exception_handler(IntegrityError)]
    ELSE LET hashed_password == get_password_hash(password, FreshSalt(us))
             new_user == AdminUser(us, email, full_name, hashed_password,
                                   RegisterRole(role))
             access_token == create_access_token(
                                 new_user.email,
                                 ACCESS_TOKEN_EXPIRE_MINUTES, t)
         IN [users |-> us \cup {new_user},
             response |-> AuthResponse("NotGuarded", HTTP_201_CREATED,
                                       access_token)]

(***************************************************************************)
(* The resource tables.  A row keeps its id, the columns the handlers      *)
(* test (keys, visibility flags, order columns, status), one text column   *)
(* and its timestamps; the other nullable text columns are copied through  *)
(* by the handlers like the text column kept.                              *)
(***************************************************************************)
\* Depends(get_current_user) of an admin endpoint.
Admitted(us, bearer, t) == get_current_user(us, bearer, t).tag = "Authorized"

\* session.get(Model, id): {} or {row}.
Get(tbl, id) == {r \in tbl : r.id = id}

\* Variant of ApplyUpdate without the assignment to updated_at.
ApplyUpdate_KeepsUpdatedAt(row, request, t) ==
    [f \in DOMAIN row |->
        IF f \in DOMAIN request THEN request[f] ELSE row[f]]

\* for key, value in request.model_dump(exclude_unset=True).items():
\*     setattr(row, key, value)
\* row.updated_at = datetime.utcnow()
ApplyUpdate(row, request, t) ==
    [f \in DOMAIN row |->
        IF f = "updated_at" THEN t
        ELSE IF f \in DOMAIN request THEN request[f] ELSE row[f]]

Ok(status, body) == Response("Authorized", status, "", {}, {}, 0, body)

Failed(status, detail) == Response("Authorized", status, detail, {}, {}, 0, <<>>)

\* An admin handler's result: the table afterwards and the response.
Result(rows, response) == [rows |-> rows, response |-> response]

\* The orders in which a SELECT may return the rows S: every order for a
\* query without ORDER BY, the orders sorted by Key otherwise.
Perms(S) ==
    {q \in [1..Cardinality(S) -> S] :
        \A i \in DOMAIN q, j \in DOMAIN q : i # j => q[i] # q[j]}

OrderedBy(S, key, desc) ==
    {q \in Perms(S) :
        \A i \in DOMAIN q, j \in DOMAIN q :
            i < j => IF desc THEN q[i][key] >= q[j][key]
                             ELSE q[i][key] <= q[j][key]}

Min(a, b) == IF a < b THEN a ELSE b

\* .offset((page - 1) * limit).limit(limit) on the rows in query order.
PageOf(query, page, limit) ==
    SubSeq(query, (page - 1) * limit + 1, Min(page * limit, Len(query)))

\* XListResponse(items, total, page, limit)
ListResponse(items, total, page, limit) ==
    Ok(HTTP_200_OK, items) @@ [total |-> total, page |-> page, limit |-> limit]

\* ===== PAGES =====
Page(id, request, t) ==
    [id |-> id, slug |-> request.slug, title |-> request.title,
     is_published |-> request.is_published, created_at |-> t, updated_at |-> t]

PageResponse(p) ==
    [id |-> p.id, slug |-> p.slug, title |-> p.title,
     is_published |-> p.is_published, created_at |-> p.created_at,
     updated_at |-> p.updated_at]

\* GET /admin/content; query is select(Page) in the order returned.
list_pages(us, bearer, t, tbl, page, limit, query) ==
    IF ~Admitted(us, bearer, t) THEN Result(tbl, Rejected(GuardRejection))
    ELSE Result(tbl, ListResponse([i \in DOMAIN PageOf(query, page, limit) |-> PageResponse(PageOf(query, page, limit)[i])],
                                  Cardinality(tbl), page, limit))

\* POST /admin/content
create_page(us, bearer, t, tbl, id, request) ==
    IF ~Admitted(us, bearer, t) THEN Result(tbl, Rejected(GuardRejection))
    ELSE IF \E p \in tbl : p.slug = request.slug
    THEN Result(tbl, Failed(HTTP_409_CONFLICT, "Page with slug already exists"))
    ELSE LET page == Page(id, request, t)
         IN Result(tbl \cup {page},
                   Ok(HTTP_201_CREATED, <<PageResponse(page)>>))

\* GET /admin/content/{id}
get_page(us, bearer, t, tbl, id) ==
    IF ~Admitted(us, bearer, t) THEN Result(tbl, Rejected(GuardRejection))
    ELSE IF Get(tbl, id) = {}
    THEN Result(tbl, Failed(HTTP_404_NOT_FOUND, "Page not found"))
    ELSE LET page == CHOOSE r \in Get(tbl, id) : TRUE
         IN Result(tbl, Ok(HTTP_200_OK, <<PageResponse(page)>>))

\* PUT /admin/content/{id}
update_page(us, bearer, t, tbl, id, request) ==
    IF ~Admitted(us, bearer, t) THEN Result(tbl, Rejected(GuardRejection))
    ELSE IF Get(tbl, id) = {}
    THEN Result(tbl, Failed(HTTP_404_NOT_FOUND, "Page not found"))
    ELSE LET page == CHOOSE r \in Get(tbl, id) : TRUE
             updated == ApplyUpdate(page, request, t)
         IN Result((tbl \ {page}) \cup {updated},
                   Ok(HTTP_200_OK, <<PageResponse(updated)>>))

\* Variant of delete_page without Depends(get_current_user).
delete_page_NoGuard(us, bearer, t, tbl, id) ==
    IF Get(tbl, id) = {}
    THEN Result(tbl, Failed(HTTP_404_NOT_FOUND, "Page not found"))
    ELSE Result(tbl \ Get(tbl, id), Ok(HTTP_204_NO_CONTENT, <<>>))

\* DELETE /admin/content/{id}
delete_page(us, bearer, t, tbl, id) ==
    IF ~Admitted(us, bearer, t) THEN Result(tbl, Rejected(GuardRejection))
    ELSE IF Get(tbl, id) = {}
    THEN Result(tbl, Failed(HTTP_404_NOT_FOUND, "Page not found"))
    ELSE Result(tbl \ Get(tbl, id), Ok(HTTP_204_NO_CONTENT, <<>>))

\* ===== TESTIMONIALS =====
Testimonial(id, request, t) ==
    [id |-> id, author_name |-> request.author_name, quote |-> request.quote, order_index |-> request.order_index, is_approved |-> request.is_approved,
     created_at |-> t, updated_at |-> t]

AdminTestimonialResponse(testimonial) ==
    [id |-> testimonial.id, author_name |-> testimonial.author_name, quote |-> testimonial.quote, order_index |-> testimonial.order_index, is_approved |-> testimonial.is_approved, created_at |-> testimonial.created_at, updated_at |-> testimonial.updated_at]

\* The rows select(Testimonial) keeps under the filter is_approved ({}: no filter).
TestimonialMatching(tbl, is_approved) ==
    {r \in tbl : \A v \in is_approved : r.is_approved = v}

\* GET /admin/testimonials; query is the filtered select in the order returned.
list_testimonials(us, bearer, t, tbl, page, limit, is_approved, query) ==
    IF ~Admitted(us, bearer, t) THEN Result(tbl, Rejected(GuardRejection))
    ELSE Result(tbl, ListResponse([i \in DOMAIN PageOf(query, page, limit) |-> AdminTestimonialResponse(PageOf(query, page, limit)[i])],
                                  Cardinality(TestimonialMatching(tbl, is_approved)),
                                  page, limit))

\* POST /admin/testimonials
create_testimonial(us, bearer, t, tbl, id, request) ==
    IF ~Admitted(us, bearer, t) THEN Result(tbl, Rejected(GuardRejection))
    ELSE LET testimonial == Testimonial(id, request, t)
         IN Result(tbl \cup {testimonial},
                   Ok(HTTP_201_CREATED, <<AdminTestimonialResponse(testimonial)>>))

\* PUT /admin/testimonials/{id}
update_testimonial(us, bearer, t, tbl, id, request) ==
    IF ~Admitted(us, bearer, t) THEN Result(tbl, Rejected(GuardRejection))
    ELSE IF Get(tbl, id) = {}
    THEN Result(tbl, Failed(HTTP_404_NOT_FOUND, "Testimonial not found"))
    ELSE LET testimonial == CHOOSE r \in Get(tbl, id) : TRUE
             updated == ApplyUpdate(testimonial, request, t)
         IN Result((tbl \ {testimonial}) \cup {updated},
                   Ok(HTTP_200_OK, <<AdminTestimonialResponse(updated)>>))

\* DELETE /admin/testimonials/{id}
delete_testimonial(us, bearer, t, tbl, id) ==
    IF ~Admitted(us, bearer, t) THEN Result(tbl, Rejected(GuardRejection))
    ELSE IF Get(tbl, id) = {}
    THEN Result(tbl, Failed(HTTP_404_NOT_FOUND, "Testimonial not found"))
    ELSE Result(tbl \ Get(tbl, id), Ok(HTTP_204_NO_CONTENT, <<>>))

\* ===== FAQS =====
FAQItem(id, request, t) ==
    [id |-> id, question |-> request.question, answer |-> request.answer, display_order |-> request.display_order, is_published |-> request.is_published,
     created_at |-> t, updated_at |-> t]

AdminFAQResponse(faq) ==
    [id |-> faq.id, question |-> faq.question, answer |-> faq.answer, display_order |-> faq.display_order, is_published |-> faq.is_published, created_at |-> faq.created_at, updated_at |-> faq.updated_at]

\* The rows select(FAQItem) keeps under the filter is_published ({}: no filter).
FAQItemMatching(tbl, is_published) ==
    {r \in tbl : \A v \in is_published : r.is_published = v}

\* GET /admin/faqs; query is the filtered select in the order returned.
list_faqs(us, bearer, t, tbl, page, limit, is_published, query) ==
    IF ~Admitted(us, bearer, t) THEN Result(tbl, Rejected(GuardRejection))
    ELSE Result(tbl, ListResponse([i \in DOMAIN PageOf(query, page, limit) |-> AdminFAQResponse(PageOf(query, page, limit)[i])],
                                  Cardinality(FAQItemMatching(tbl, is_published)),
                                  page, limit))

\* POST /admin/faqs
create_faq(us, bearer, t, tbl, id, request) ==
    IF ~Admitted(us, bearer, t) THEN Result(tbl, Rejected(GuardRejection))
    ELSE LET faq == FAQItem(id, request, t)
         IN Result(tbl \cup {faq},
                   Ok(HTTP_201_CREATED, <<AdminFAQResponse(faq)>>))

\* PUT /admin/faqs/{id}
update_faq(us, bearer, t, tbl, id, request) ==
    IF ~Admitted(us, bearer, t) THEN Result(tbl, Rejected(GuardRejection))
    ELSE IF Get(tbl, id) = {}
    THEN Result(tbl, Failed(HTTP_404_NOT_FOUND, "FAQ not found"))
    ELSE LET faq == CHOOSE r \in Get(tbl, id) : TRUE
             updated == ApplyUpdate(faq, request, t)
         IN Result((tbl \ {faq}) \cup {updated},
                   Ok(HTTP_200_OK, <<AdminFAQResponse(updated)>>))

\* DELETE /admin/faqs/{id}
delete_faq(us, bearer, t, tbl, id) ==
    IF ~Admitted(us, bearer, t) THEN Result(tbl, Rejected(GuardRejection))
    ELSE IF Get(tbl, id) = {}
    THEN Result(tbl, Failed(HTTP_404_NOT_FOUND, "FAQ not found"))
    ELSE Result(tbl \ Get(tbl, id), Ok(HTTP_204_NO_CONTENT, <<>>))

\* ===== DISCLAIMERS =====
Disclaimer(id, request, t) ==
    [id |-> id, name |-> request.name, content |-> request.content, is_active |-> request.is_active,
     created_at |-> t, updated_at |-> t]

AdminDisclaimerResponse(disclaimer) ==
    [id |-> disclaimer.id, name |-> disclaimer.name, content |-> disclaimer.content, is_active |-> disclaimer.is_active, created_at |-> disclaimer.created_at, updated_at |-> disclaimer.updated_at]

\* The rows select(Disclaimer) keeps under the filter is_active ({}: no filter).
DisclaimerMatching(tbl, is_active) ==
    {r \in tbl : \A v \in is_active : r.is_active = v}

\* GET /admin/disclaimers; query is the filtered select in the order returned.
list_disclaimers(us, bearer, t, tbl, page, limit, is_active, query) ==
    IF ~Admitted(us, bearer, t) THEN Result(tbl, Rejected(GuardRejection))
    ELSE Result(tbl, ListResponse([i \in DOMAIN PageOf(query, page, limit) |-> AdminDisclaimerResponse(PageOf(query, page, limit)[i])],
                                  Cardinality(DisclaimerMatching(tbl, is_active)),
                                  page, limit))

\* POST /admin/disclaimers
create_disclaimer(us, bearer, t, tbl, id, request) ==
    IF ~Admitted(us, bearer, t) THEN Result(tbl, Rejected(GuardRejection))
    ELSE IF \E r \in tbl : r.name = request.name
    THEN Result(tbl, Failed(HTTP_409_CONFLICT,
                            "Disclaimer with name already exists"))
    ELSE LET disclaimer == Disclaimer(id, request, t)
         IN Result(tbl \cup {disclaimer},
                   Ok(HTTP_201_CREATED, <<AdminDisclaimerResponse(disclaimer)>>))

\* PUT /admin/disclaimers/{id}; a commit that would break the unique
\* index on name raises, and the outer handler answers 500.
update_disclaimer(us, bearer, t, tbl, id, request) ==
    IF ~Admitted(us, bearer, t) THEN Result(tbl, Rejected(GuardRejection))
    ELSE IF Get(tbl, id) = {}
    THEN Result(tbl, Failed(HTTP_404_NOT_FOUND, "Disclaimer not found"))
    ELSE LET disclaimer == CHOOSE r \in Get(tbl, id) : TRUE
             updated == ApplyUpdate(disclaimer, request, t)
         IN IF \E r \in tbl \ {disclaimer} : r.name = updated.name
            THEN Result(tbl, Failed(HTTP_500_INTERNAL_SERVER_ERROR,
                                    "Internal server error"))
            ELSE Result((tbl \ {disclaimer}) \cup {updated},
                        Ok(HTTP_200_OK, <<AdminDisclaimerResponse(updated)>>))

\* DELETE /admin/disclaimers/{id}
delete_disclaimer(us, bearer, t, tbl, id) ==
    IF ~Admitted(us, bearer, t) THEN Result(tbl, Rejected(GuardRejection))
    ELSE IF Get(tbl, id) = {}
    THEN Result(tbl, Failed(HTTP_404_NOT_FOUND, "Disclaimer not found"))
    ELSE Result(tbl \ Get(tbl, id), Ok(HTTP_204_NO_CONTENT, <<>>))

\* ===== CONTACT FORMS (src/api/routers/admin_leads.py) =====
ConsultationStatus == {"new", "contacted", "qualified", "archived"}

\* None, of a field "ConsultationStatus | None" (JSON null); the column
\* status, a Column(SQLEnum(ConsultationStatus), index=True), is nullable.
None == "None"

\* What pydantic raises when ConsultationRequestResponse is built from a
\* row whose status is not a ConsultationStatus.
ValidationError ==
    [type |-> "ValidationError",
     message |-> "status: Input should be 'new', 'contacted', 'qualified' or 'archived'"]

\* The rows ConsultationRequestResponse(status: ConsultationStatus) accepts.
Serializable(rows) == \A s \in rows : s.status \in ConsultationStatus

ConsultationRequestResponse(s) ==
    [id |-> s.id, first_name |-> s.first_name, last_name |-> s.last_name,
     email |-> s.email, status |-> s.status, requested_at |-> s.requested_at,
     updated_at |-> s.updated_at]

\* The rows select(ConsultationRequest) keeps under the filter status.
ConsultationRequestMatching(tbl, status) ==
    {r \in tbl : \A v \in status : r.status = v}

\* GET /admin/contact-forms; query is the filtered select in the order
\* returned (requested_at descending).
list_contact_forms(us, bearer, t, tbl, page, limit, status, query) ==
    IF ~Admitted(us, bearer, t) THEN Result(tbl, Rejected(GuardRejection))
    ELSE IF ~Serializable({PageOf(query, page, limit)[i] : i \in DOMAIN PageOf(query, page, limit)})
    THEN Result(tbl, global_exception_handler(ValidationError))
    ELSE Result(tbl, ListResponse(
                        [i \in DOMAIN PageOf(query, page, limit) |-> ConsultationRequestResponse(PageOf(query, page, limit)[i])],
                        Cardinality(ConsultationRequestMatching(tbl, status)),
                        page, limit))

\* GET /admin/contact-forms/{id}
get_contact_form(us, bearer, t, tbl, id) ==
    IF ~Admitted(us, bearer, t) THEN Result(tbl, Rejected(GuardRejection))
    ELSE IF Get(tbl, id) = {}
    THEN Result(tbl, Failed(HTTP_404_NOT_FOUND,
                            "Contact form submission not found"))
    ELSE LET submission == CHOOSE r \in Get(tbl, id) : TRUE
         IN IF ~Serializable({submission})
            THEN Result(tbl, global_exception_handler(ValidationError))
            ELSE Result(tbl, Ok(HTTP_200_OK,
                                <<ConsultationRequestResponse(submission)>>))

\* PUT /admin/contact-forms/{id}.  The row is committed before the
\* response is built, so a row the response model refuses stays stored.
update_contact_form(us, bearer, t, tbl, id, request) ==
    IF ~Admitted(us, bearer, t) THEN Result(tbl, Rejected(GuardRejection))
    ELSE IF Get(tbl, id) = {}
    THEN Result(tbl, Failed(HTTP_404_NOT_FOUND,
                            "Contact form submission not found"))
    ELSE LET submission == CHOOSE r \in Get(tbl, id) : TRUE
             updated == ApplyUpdate(submission, request, t)
         IN IF ~Serializable({updated})
            THEN Result((tbl \ {submission}) \cup {updated},
                        global_exception_handler(ValidationError))
            ELSE Result((tbl \ {submission}) \cup {updated},
                        Ok(HTTP_200_OK,
                           <<ConsultationRequestResponse(updated)>>))

\* DELETE /admin/contact-forms/{id}
delete_contact_form(us, bearer, t, tbl, id) ==
    IF ~Admitted(us, bearer, t) THEN Result(tbl, Rejected(GuardRejection))
    ELSE IF Get(tbl, id) = {}
    THEN Result(tbl, Failed(HTTP_404_NOT_FOUND,
                            "Contact form submission not found"))
    ELSE Result(tbl \ Get(tbl, id), Ok(HTTP_204_NO_CONTENT, <<>>))

\* ===== src/api/routers/public.py: the public reads =====
\* select(Page).where(Page.slug == slug, Page.is_published == True)
PublishedPages(tbl, slug) == {p \in tbl : p.slug = slug /\ p.is_published}

\* select(Testimonial).where(Testimonial.is_approved == True)
ApprovedTestimonials(tbl) == {r \in tbl : r.is_approved}

\* select(Disclaimer).where(Disclaimer.is_active == True)
ActiveDisclaimers(tbl) == {d \in tbl : d.is_active}

\* Variant of PublishedFaqs without the WHERE clause.
PublishedFaqs_NoFilter(tbl) == tbl

\* select(FAQItem).where(FAQItem.is_published == True)
PublishedFaqs(tbl) == {f \in tbl : f.is_published}

Public(status, detail, body) ==
    Response("NotGuarded", status, detail, {}, {}, 0, body)

WebsiteContentResponse(page) ==
    [id |-> page.id, slug |-> page.slug, title |-> page.title,
     is_published |-> page.is_published, created_at |-> page.created_at,
     updated_at |-> page.updated_at]

\* GET /public/content/{slug}; query is the filtered select in the order
\* returned, of which .first() takes the head.
get_website_content_by_slug(slug, query) ==
    IF query = <<>>
    THEN Public(HTTP_404_NOT_FOUND, "Content with slug not found", <<>>)
    ELSE Public(HTTP_200_OK, "", <<WebsiteContentResponse(Head(query))>>)

PublicTestimonialResponse(r) ==
    [id |-> r.id, author_name |-> r.author_name, quote |-> r.quote,
     created_at |-> r.created_at, updated_at |-> r.updated_at]

\* GET /public/testimonials
get_approved_testimonials(query) ==
    Public(HTTP_200_OK, "",
           [i \in DOMAIN query |-> PublicTestimonialResponse(query[i])])

PublicDisclaimerResponse(d) ==
    [id |-> d.id, name |-> d.name, content |-> d.content,
     created_at |-> d.created_at, updated_at |-> d.updated_at]

\* GET /public/disclaimers
get_active_disclaimers(query) ==
    Public(HTTP_200_OK, "",
           [i \in DOMAIN query |-> PublicDisclaimerResponse(query[i])])

PublicFAQResponse(f) ==
    [id |-> f.id, question |-> f.question, answer |-> f.answer,
     display_order |-> f.display_order, is_published |-> f.is_published,
     created_at |-> f.created_at, updated_at |-> f.updated_at]

\* GET /public/faqs
get_published_faqs(query) ==
    Public(HTTP_200_OK, "",
           [i \in DOMAIN query |-> PublicFAQResponse(query[i])])

\* ===== src/api/routers/public.py: the contact form =====
\* A full name is a sequence of characters.
IsSpace(c) == c = " "

\* str.strip()
RECURSIVE LStrip(_)
LStrip(str) ==
    IF str # <<>> /\ IsSpace(Head(str)) THEN LStrip(Tail(str)) ELSE str

RECURSIVE RStrip(_)
RStrip(str) ==
    IF str # <<>> /\ IsSpace(str[Len(str)])
    THEN RStrip(SubSeq(str, 1, Len(str) - 1)) ELSE str

Strip(str) == RStrip(LStrip(str))

\* The characters of str before its first space.
RECURSIVE Word(_)
Word(str) ==
    IF str = <<>> \/ IsSpace(Head(str)) THEN <<>>
    ELSE <<Head(str)>> \o Word(Tail(str))

\* str.split(maxsplit=1) on a stripped string: the first word, then what
\* follows the run of spaces after it, if anything.
SplitOnce(str) ==
    IF str = <<>> THEN <<>>
    ELSE LET first == Word(str)
             rest == LStrip(SubSeq(str, Len(first) + 1, Len(str)))
         IN IF rest = <<>> THEN <<first>> ELSE <<first, rest>>

ContactFormResponse(id) ==
    Response("NotGuarded", HTTP_201_CREATED,
             "Contact form submitted successfully", {}, {}, 0, <<[id |-> id]>>)

\* Variant of submit_contact_form that lets a failure of the notification
\* out of the handler, after the commit.
submit_contact_form_MailFailureRaises(tbl, id, t, request, mail) ==
    IF Len(request.full_name) = 0 \/ Len(Strip(request.full_name)) = 0
    THEN Result(tbl, Response("NotGuarded", HTTP_400_BAD_REQUEST,
                              "Full name is required", {}, {}, 0, <<>>))
    ELSE LET name_parts == SplitOnce(Strip(request.full_name))
             first_name == name_parts[1]
             last_name == IF Len(name_parts) > 1 THEN name_parts[2] ELSE <<>>
             consultation_request ==
                 [id |-> id, first_name |-> first_name,
                  last_name |-> last_name, email |-> request.email,
                  status |-> "new", requested_at |-> t, updated_at |-> t]
         IN IF mail = "failed"
            THEN Result(tbl \cup {consultation_request},
                        global_exception_handler(StoreError))
            ELSE Result(tbl \cup {consultation_request},
                        ContactFormResponse(id))

\* POST /public/contact-forms.  mail is what send_contact_form_email came
\* to (sent, skipped without SMTP credentials, failed): it is logged only.
submit_contact_form(tbl, id, t, request, mail) ==
    IF Len(request.full_name) = 0 \/ Len(Strip(request.full_name)) = 0
    THEN Result(tbl, Response("NotGuarded", HTTP_400_BAD_REQUEST,
                              "Full name is required", {}, {}, 0, <<>>))
    ELSE LET name_parts == SplitOnce(Strip(request.full_name))
             first_name == name_parts[1]
             last_name == IF Len(name_parts) > 1 THEN name_parts[2] ELSE <<>>
             consultation_request ==
                 [id |-> id, first_name |-> first_name,
                  last_name |-> last_name, email |-> request.email,
                  status |-> "new", requested_at |-> t, updated_at |-> t]
         IN Result(tbl \cup {consultation_request}, ContactFormResponse(id))

(***************************************************************************)
(* The callers.                                                            *)
(***************************************************************************)
\* A caller keeps a returned token while it has room for it.
Keep(held, token, t) ==
    IF Cardinality(held) < MaxTokens
    THEN held \cup {[token |-> k, at |-> t] : k \in token}
    ELSE held

Known == {i.token : i \in issued} \cup last.token

\* Token strings made without the secret: a known token with its signature
\* segment, its expiry or its subject changed.
Forged ==
    {[k EXCEPT !.sig = Mac(OtherKey, k.sub, k.exp)] : k \in Known}
    \cup {[k EXCEPT !.exp = k.exp + 1] : k \in Known}
    \cup {[x[1] EXCEPT !.sub = x[2]]
            : x \in {y \in Known \X Emails : y[2] # y[1].sub}}

\* What a request can carry: no header, a token a caller holds, a forgery.
Bearers == {{}} \cup {{k} : k \in Known \cup Forged}

\* No header, a token a caller holds, or one with a foreign signature.
AdminBearers ==
    {{}} \cup {{k} : k \in Known}
         \cup {{[k EXCEPT !.sig = Mac(OtherKey, k.sub, k.exp)]} : k \in Known}

(***************************************************************************)
(* Actions.                                                                *)
(***************************************************************************)
Init ==
    /\ users = {}
    /\ pages = {}
    /\ testimonials = {}
    /\ faqs = {}
    /\ disclaimers = {}
    /\ forms = {}
    /\ nextId = 1
    /\ now = 0
    /\ issued = {}
    /\ registered = {}
    /\ last = Idle
    /\ inflight = [c \in Callers |-> NoRequest]

Register(email, password, full_name, role) ==
    LET out == register_admin_user(users, email, password, full_name, role,
                                   now)
    IN /\ users' = out.users
       /\ issued' = Keep(issued, out.response.token, now)
       /\ registered' = IF out.response.status = HTTP_201_CREATED
                        THEN registered \cup
                               {[email |-> email, password |-> password]}
                        ELSE registered
       /\ last' = Exchange("register", {}, out.response)
       /\ UNCHANGED <<store, now, inflight>>

\* Variant of Login in which a successful login stores a new digest of the
\* password.
Login_RehashesPassword(email, password) ==
    LET response == login_admin_user(users, email, password, now)
        user == authenticate_user(users, email, password)
    IN /\ issued' = Keep(issued, response.token, now)
       /\ last' = Exchange("login", {}, response)
       /\ users' = (users \ user)
                     \cup {[u EXCEPT !.hashed_password =
                               get_password_hash(password,
                                                 u.hashed_password.salt + 1)]
                             : u \in user}
       /\ UNCHANGED <<store, now, registered, inflight>>

Login(email, password) ==
    LET response == login_admin_user(users, email, password, now)
    IN /\ issued' = Keep(issued, response.token, now)
       /\ last' = Exchange("login", {}, response)
       /\ UNCHANGED <<users, store, now, registered, inflight>>

Refresh(bearer) ==
    LET response == refresh_auth_token(users, bearer, now)
    IN /\ issued' = Keep(issued, response.token, now)
       /\ last' = Exchange("refresh", bearer, response)
       /\ UNCHANGED <<users, store, now, registered, inflight>>

GetMe(bearer) ==
    /\ last' = Exchange("me", bearer, get_current_admin_user(users, bearer, now))
    /\ UNCHANGED <<users, store, now, issued, registered, inflight>>

\* The Credential Store's owner deactivates or reactivates an account.
SetActive(email, active) ==
    /\ \E u \in users : u.email = email /\ u.is_active # active
    /\ users' = {IF u.email = email THEN [u EXCEPT !.is_active = active] ELSE u
                   : u \in users}
    /\ last' = Idle
    /\ UNCHANGED <<store, now, issued, registered, inflight>>

\* The Credential Store's owner changes the role of an account.
SetRole(email, role) ==
    /\ \E u \in users : u.email = email /\ u.role # role
    /\ users' = {IF u.email = email THEN [u EXCEPT !.role = role] ELSE u
                   : u \in users}
    /\ last' = Idle
    /\ UNCHANGED <<store, now, issued, registered, inflight>>

Tick ==
    /\ now < MaxTime
    /\ now' = now + 1
    /\ last' = Idle
    /\ UNCHANGED <<users, store, issued, registered, inflight>>

\* The admin endpoints (src/api/routers/admin_content.py, admin_leads.py).
\* A list action draws the order in which the database returns the rows.
ListPages(bearer, page, limit, query) ==
    LET out == list_pages(users, bearer, now, pages, page, limit, query)
    IN /\ query \in Perms(pages)
       /\ last' = Exchange("list_pages", bearer, out.response)
       /\ UNCHANGED <<users, pages, testimonials, faqs, disclaimers, forms,
                     nextId, now, issued, registered, inflight>>

CreatePage(bearer, request) ==
    LET out == create_page(users, bearer, now, pages, nextId, request)
    IN /\ out.rows # pages => nextId <= MaxId
       /\ pages' = out.rows
       /\ nextId' = IF out.rows # pages THEN nextId + 1 ELSE nextId
       /\ last' = Exchange("create_page", bearer, out.response)
       /\ UNCHANGED <<users, testimonials, faqs, disclaimers, forms, now,
                     issued, registered, inflight>>

GetPage(bearer, id) ==
    LET out == get_page(users, bearer, now, pages, id)
    IN /\ last' = Exchange("get_page", bearer, out.response)
       /\ UNCHANGED <<users, pages, testimonials, faqs, disclaimers, forms,
                     nextId, now, issued, registered, inflight>>

UpdatePage(bearer, id, request) ==
    LET out == update_page(users, bearer, now, pages, id, request)
    IN /\ pages' = out.rows
       /\ last' = Exchange("update_page", bearer, out.response)
       /\ UNCHANGED <<users, testimonials, faqs, disclaimers, forms, nextId,
                     now, issued, registered, inflight>>

DeletePage(bearer, id) ==
    LET out == delete_page(users, bearer, now, pages, id)
    IN /\ pages' = out.rows
       /\ last' = Exchange("delete_page", bearer, out.response)
       /\ UNCHANGED <<users, testimonials, faqs, disclaimers, forms, nextId,
                     now, issued, registered, inflight>>

ListTestimonials(bearer, page, limit, is_approved, query) ==
    LET out == list_testimonials(users, bearer, now, testimonials, page, limit, is_approved,
                                query)
    IN /\ query \in OrderedBy(TestimonialMatching(testimonials, is_approved), "order_index", FALSE)
       /\ last' = Exchange("list_testimonials", bearer, out.response)
       /\ UNCHANGED <<users, pages, testimonials, faqs, disclaimers, forms,
                     nextId, now, issued, registered, inflight>>

CreateTestimonial(bearer, request) ==
    LET out == create_testimonial(users, bearer, now, testimonials, nextId, request)
    IN /\ out.rows # testimonials => nextId <= MaxId
       /\ testimonials' = out.rows
       /\ nextId' = IF out.rows # testimonials THEN nextId + 1 ELSE nextId
       /\ last' = Exchange("create_testimonial", bearer, out.response)
       /\ UNCHANGED <<users, pages, faqs, disclaimers, forms, now, issued,
                     registered, inflight>>

UpdateTestimonial(bearer, id, request) ==
    LET out == update_testimonial(users, bearer, now, testimonials, id, request)
    IN /\ testimonials' = out.rows
       /\ last' = Exchange("update_testimonial", bearer, out.response)
       /\ UNCHANGED <<users, pages, faqs, disclaimers, forms, nextId, now,
                     issued, registered, inflight>>

DeleteTestimonial(bearer, id) ==
    LET out == delete_testimonial(users, bearer, now, testimonials, id)
    IN /\ testimonials' = out.rows
       /\ last' = Exchange("delete_testimonial", bearer, out.response)
       /\ UNCHANGED <<users, pages, faqs, disclaimers, forms, nextId, now,
                     issued, registered, inflight>>

ListFaqs(bearer, page, limit, is_published, query) ==
    LET out == list_faqs(users, bearer, now, faqs, page, limit, is_published,
                        query)
    IN /\ query \in OrderedBy(FAQItemMatching(faqs, is_published), "display_order", FALSE)
       /\ last' = Exchange("list_faqs", bearer, out.response)
       /\ UNCHANGED <<users, pages, testimonials, faqs, disclaimers, forms,
                     nextId, now, issued, registered, inflight>>

CreateFaq(bearer, request) ==
    LET out == create_faq(users, bearer, now, faqs, nextId, request)
    IN /\ out.rows # faqs => nextId <= MaxId
       /\ faqs' = out.rows
       /\ nextId' = IF out.rows # faqs THEN nextId + 1 ELSE nextId
       /\ last' = Exchange("create_faq", bearer, out.response)
       /\ UNCHANGED <<users, pages, testimonials, disclaimers, forms, now,
                     issued, registered, inflight>>

UpdateFaq(bearer, id, request) ==
    LET out == update_faq(users, bearer, now, faqs, id, request)
    IN /\ faqs' = out.rows
       /\ last' = Exchange("update_faq", bearer, out.response)
       /\ UNCHANGED <<users, pages, testimonials, disclaimers, forms, nextId,
                     now, issued, registered, inflight>>

DeleteFaq(bearer, id) ==
    LET out == delete_faq(users, bearer, now, faqs, id)
    IN /\ faqs' = out.rows
       /\ last' = Exchange("delete_faq", bearer, out.response)
       /\ UNCHANGED <<users, pages, testimonials, disclaimers, forms, nextId,
                     now, issued, registered, inflight>>

ListDisclaimers(bearer, page, limit, is_active, query) ==
    LET out == list_disclaimers(users, bearer, now, disclaimers, page, limit, is_active,
                               query)
    IN /\ query \in Perms(DisclaimerMatching(disclaimers, is_active))
       /\ last' = Exchange("list_disclaimers", bearer, out.response)
       /\ UNCHANGED <<users, pages, testimonials, faqs, disclaimers, forms,
                     nextId, now, issued, registered, inflight>>

CreateDisclaimer(bearer, request) ==
    LET out == create_disclaimer(users, bearer, now, disclaimers, nextId, request)
    IN /\ out.rows # disclaimers => nextId <= MaxId
       /\ disclaimers' = out.rows
       /\ nextId' = IF out.rows # disclaimers THEN nextId + 1 ELSE nextId
       /\ last' = Exchange("create_disclaimer", bearer, out.response)
       /\ UNCHANGED <<users, pages, testimonials, faqs, forms, now, issued,
                     registered, inflight>>

UpdateDisclaimer(bearer, id, request) ==
    LET out == update_disclaimer(users, bearer, now, disclaimers, id, request)
    IN /\ disclaimers' = out.rows
       /\ last' = Exchange("update_disclaimer", bearer, out.response)
       /\ UNCHANGED <<users, pages, testimonials, faqs, forms, nextId, now,
                     issued, registered, inflight>>

DeleteDisclaimer(bearer, id) ==
    LET out == delete_disclaimer(users, bearer, now, disclaimers, id)
    IN /\ disclaimers' = out.rows
       /\ last' = Exchange("delete_disclaimer", bearer, out.response)
       /\ UNCHANGED <<users, pages, testimonials, faqs, forms, nextId, now,
                     issued, registered, inflight>>

ListContactForms(bearer, page, limit, status, query) ==
    LET out == list_contact_forms(users, bearer, now, forms, page, limit, status,
                                 query)
    IN /\ query \in OrderedBy(ConsultationRequestMatching(forms, status), "requested_at", TRUE)
       /\ last' = Exchange("list_contact_forms", bearer, out.response)
       /\ UNCHANGED <<users, pages, testimonials, faqs, disclaimers, forms,
                     nextId, now, issued, registered, inflight>>

GetContactForm(bearer, id) ==
    LET out == get_contact_form(users, bearer, now, forms, id)
    IN /\ last' = Exchange("get_contact_form", bearer, out.response)
       /\ UNCHANGED <<users, pages, testimonials, faqs, disclaimers, forms,
                     nextId, now, issued, registered, inflight>>

UpdateContactForm(bearer, id, request) ==
    LET out == update_contact_form(users, bearer, now, forms, id, request)
    IN /\ forms' = out.rows
       /\ last' = Exchange("update_contact_form", bearer, out.response)
       /\ UNCHANGED <<users, pages, testimonials, faqs, disclaimers, nextId,
                     now, issued, registered, inflight>>

DeleteContactForm(bearer, id) ==
    LET out == delete_contact_form(users, bearer, now, forms, id)
    IN /\ forms' = out.rows
       /\ last' = Exchange("delete_contact_form", bearer, out.response)
       /\ UNCHANGED <<users, pages, testimonials, faqs, disclaimers, nextId,
                     now, issued, registered, inflight>>

SubmitContactForm(request, mail) ==
    LET out == submit_contact_form(forms, nextId, now, request, mail)
    IN /\ out.rows # forms => nextId <= MaxId
       /\ forms' = out.rows
       /\ nextId' = IF out.rows # forms THEN nextId + 1 ELSE nextId
       /\ last' = Exchange("submit_contact_form", {}, out.response)
       /\ UNCHANGED <<users, pages, testimonials, faqs, disclaimers, now,
                      issued, registered, inflight>>

\* The public reads.  As for the admin lists, the action draws the order
\* in which the database returns the selected rows.
GetWebsiteContentBySlug(slug, query) ==
    /\ query \in Perms(PublishedPages(pages, slug))
    /\ last' = Exchange("get_website_content_by_slug", {},
                        get_website_content_by_slug(slug, query))
    /\ UNCHANGED <<users, store, now, issued, registered, inflight>>

GetApprovedTestimonials(query) ==
    /\ query \in OrderedBy(ApprovedTestimonials(testimonials), "order_index",
                           FALSE)
    /\ last' = Exchange("get_approved_testimonials", {},
                        get_approved_testimonials(query))
    /\ UNCHANGED <<users, store, now, issued, registered, inflight>>

GetActiveDisclaimers(query) ==
    /\ query \in Perms(ActiveDisclaimers(disclaimers))
    /\ last' = Exchange("get_active_disclaimers", {},
                        get_active_disclaimers(query))
    /\ UNCHANGED <<users, store, now, issued, registered, inflight>>

GetPublishedFaqs(query) ==
    /\ query \in OrderedBy(PublishedFaqs(faqs), "display_order", FALSE)
    /\ last' = Exchange("get_published_faqs", {}, get_published_faqs(query))
    /\ UNCHANGED <<users, store, now, issued, registered, inflight>>

Next ==
    \/ \E e \in Emails, p \in Passwords, f \in Profiles :
          Register(e, p, f[1], f[2])
    \/ \E e \in Emails, p \in Passwords : Login(e, p)
    \/ \E b \in AdminBearers : Refresh(b)
    \/ \E b \in Bearers : GetMe(b)
    \/ \E e \in Emails, a \in BOOLEAN : SetActive(e, a)
    \/ Tick

Spec == Init /\ [][Next]_vars

(***************************************************************************)
(* The admin API: one registered administrator, who is deactivated and     *)
(* reactivated, and requests to every admin endpoint carrying no token,    *)
(* the token of the registration (expired or not) or a forgery.            *)
(***************************************************************************)
AdminEmail == "a@x.com"
AdminPassword == "exactly8"
Ids == 1..MaxId
PageNumbers == {1}
Limits == {1}
PageCreates == {[slug |-> "home", title |-> "Home", is_published |-> FALSE]}
PageUpdates == {[is_published |-> TRUE], [is_published |-> FALSE]}
Slugs == {"home", "about"}
TestimonialCreates ==
    {[author_name |-> "Cy", quote |-> "Great", order_index |-> 0,
      is_approved |-> FALSE]}
TestimonialUpdates == {[is_approved |-> TRUE]}
FaqCreates ==
    {[question |-> "Why?", answer |-> "Because.", display_order |-> 0,
      is_published |-> TRUE]}
FaqUpdates == {[is_published |-> FALSE]}
DisclaimerCreates == {[name |-> "terms", content |-> "Terms.", is_active |-> TRUE]}
DisclaimerUpdates == {[is_active |-> FALSE]}
ContactFormUpdates == {[status |-> "contacted"]}
ContactForms ==
    {[full_name |-> <<"A", "l", " ", "B">>, email |-> "c@y.com"],
     [full_name |-> <<" ">>, email |-> "c@y.com"],
     [full_name |-> <<>>, email |-> "c@y.com"]}
MailOutcomes == {"sent", "skipped", "failed"}
\* The state after the administrator registered at instant 0 and kept the
\* token, at any later instant: a state Spec reaches by Register and Tick.
InitAdmin ==
    LET out == register_admin_user({}, AdminEmail, AdminPassword, "Ann", {}, 0)
    IN /\ users = out.users
       /\ pages = {}
       /\ testimonials = {}
       /\ faqs = {}
       /\ disclaimers = {}
       /\ forms = {}
       /\ nextId = 1
       /\ now \in 0..MaxTime
       /\ issued = Keep({}, out.response.token, 0)
       /\ registered = {[email |-> AdminEmail, password |-> AdminPassword]}
       /\ last = Idle
       /\ inflight = [c \in Callers |-> NoRequest]

NextAdmin ==
    \/ \E a \in BOOLEAN : SetActive(AdminEmail, a)
    \/ \E r \in ContactForms, m \in MailOutcomes : SubmitContactForm(r, m)
    \/ \E g \in Slugs : \E q \in Perms(PublishedPages(pages, g)) :
          GetWebsiteContentBySlug(g, q)
    \/ \E q \in OrderedBy(ApprovedTestimonials(testimonials), "order_index",
                           FALSE) :
          GetApprovedTestimonials(q)
    \/ \E q \in Perms(ActiveDisclaimers(disclaimers)) : GetActiveDisclaimers(q)
    \/ \E q \in OrderedBy(PublishedFaqs(faqs), "display_order", FALSE) :
          GetPublishedFaqs(q)
    \/ \E b \in AdminBearers, n \in PageNumbers, l \in Limits :
          \/ \E q \in Perms(pages) : ListPages(b, n, l, q)
          \/ \E q \in OrderedBy(TestimonialMatching(testimonials, {}), "order_index", FALSE) :
                ListTestimonials(b, n, l, {}, q)
          \/ \E q \in OrderedBy(FAQItemMatching(faqs, {}), "display_order", FALSE) :
                ListFaqs(b, n, l, {}, q)
          \/ \E q \in Perms(DisclaimerMatching(disclaimers, {})) :
                ListDisclaimers(b, n, l, {}, q)
          \/ \E q \in OrderedBy(ConsultationRequestMatching(forms, {}), "requested_at", TRUE) :
                ListContactForms(b, n, l, {}, q)
    \/ \E b \in AdminBearers :
          \/ \E r \in PageCreates : CreatePage(b, r)
          \/ \E r \in TestimonialCreates : CreateTestimonial(b, r)
          \/ \E r \in FaqCreates : CreateFaq(b, r)
          \/ \E r \in DisclaimerCreates : CreateDisclaimer(b, r)
    \/ \E b \in AdminBearers, i \in Ids :
          \/ GetPage(b, i)
          \/ GetContactForm(b, i)
          \/ DeletePage(b, i)
          \/ DeleteTestimonial(b, i)
          \/ DeleteFaq(b, i)
          \/ DeleteDisclaimer(b, i)
          \/ DeleteContactForm(b, i)
          \/ \E r \in PageUpdates : UpdatePage(b, i, r)
          \/ \E r \in TestimonialUpdates : UpdateTestimonial(b, i, r)
          \/ \E r \in FaqUpdates : UpdateFaq(b, i, r)
          \/ \E r \in DisclaimerUpdates : UpdateDisclaimer(b, i, r)
          \/ \E r \in ContactFormUpdates : UpdateContactForm(b, i, r)

SpecAdmin == InitAdmin /\ [][NextAdmin]_vars

(***************************************************************************)
(* The live identity: the administrator's record is rewritten in the       *)
(* Credential Store (role, active flag) between guarded requests that      *)
(* carry the token of the registration.                                    *)
(***************************************************************************)
Roles == {"admin", "editor"}

NextIdentity ==
    \/ \E a \in BOOLEAN : SetActive(AdminEmail, a)
    \/ \E r \in Roles : SetRole(AdminEmail, r)
    \/ \E b \in Bearers : Refresh(b)
    \/ \E b \in Bearers : GetMe(b)

SpecIdentity == InitAdmin /\ [][NextIdentity]_vars

(***************************************************************************)
(* Concurrent registrations: each caller's request runs its select and     *)
(* checks in one step and its commit in a later one, and the steps of the  *)
(* callers interleave.                                                     *)
(***************************************************************************)
RegisterRequests ==
    {[email |-> "a@x.com", password |-> "exactly8", full_name |-> "Ann",
      role |-> {}],
     [email |-> "a@x.com", password |-> "longpass9", full_name |-> "Bob",
      role |-> {"editor"}],
     [email |-> "b@x.com", password |-> "exactly8", full_name |-> "Ann",
      role |-> {}],
     [email |-> "b@x.com", password |-> "short7!", full_name |-> "Bob",
      role |-> {}]}

RegisterCheck(c, request) ==
    LET raised == register_check(users, request.email, request.password,
                                 request.full_name, request.role, now)
    IN /\ inflight[c].pc # "checked"
       /\ inflight' =
             [inflight EXCEPT ![c] =
                 IF raised = {}
                 THEN [pc |-> "checked", request |-> {request},
                       passed |-> TRUE, response |-> {}]
                 ELSE [pc |-> "done", request |-> {request},
                       passed |-> FALSE, response |-> raised]]
       /\ last' = IF raised = {} THEN last
                  ELSE Exchange("register", {}, CHOOSE r \in raised : TRUE)
       /\ UNCHANGED <<users, store, now, issued, registered>>

RegisterCommit(c) ==
    /\ inflight[c].pc = "checked"
    /\ LET request == CHOOSE r \in inflight[c].request : TRUE
           out == register_commit(users, request.email, request.password,
                                  request.full_name, request.role, now)
       IN /\ users' = out.users
          /\ issued' = Keep(issued, out.response.token, now)
          /\ registered' = IF out.response.status = HTTP_201_CREATED
                           THEN registered \cup
                                  {[email |-> request.email,
                                    password |-> request.password]}
                           ELSE registered
          /\ last' = Exchange("register", {}, out.response)
          /\ inflight' = [inflight EXCEPT ![c] =
                             [pc |-> "done", request |-> {request},
                              passed |-> TRUE, response |-> {out.response}]]
    /\ UNCHANGED <<store, now>>

NextRace ==
    \/ \E c \in Callers, r \in RegisterRequests : RegisterCheck(c, r)
    \/ \E c \in Callers : RegisterCommit(c)

SpecRace == Init /\ [][NextRace]_vars

(***************************************************************************)
(* The auth routes over a database that may fail: a request meets no       *)
(* failure, a failing select or a failing commit.                          *)
(***************************************************************************)
RegisterOn(fault, email, password, full_name, role) ==
    LET out == app_register_admin_user(users, email, password, full_name,
                                       role, now, fault)
    IN /\ users' = out.users
       /\ issued' = Keep(issued, out.response.token, now)
       /\ registered' = IF out.response.status = HTTP_201_CREATED
                        THEN registered \cup
                               {[email |-> email, password |-> password]}
                        ELSE registered
       /\ last' = Exchange("register", {}, out.response)
       /\ UNCHANGED <<store, now, inflight>>

LoginOn(fault, email, password) ==
    LET response == app_login_admin_user(users, email, password, now, fault)
    IN /\ issued' = Keep(issued, response.token, now)
       /\ last' = Exchange("login", {}, response)
       /\ UNCHANGED <<users, store, now, registered, inflight>>

RefreshOn(fault, bearer) ==
    LET response == app_refresh_auth_token(users, bearer, now, fault)
    IN /\ issued' = Keep(issued, response.token, now)
       /\ last' = Exchange("refresh", bearer, response)
       /\ UNCHANGED <<users, store, now, registered, inflight>>

GetMeOn(fault, bearer) ==
    /\ last' = Exchange("me", bearer,
                        app_get_current_admin_user(users, bearer, now, fault))
    /\ UNCHANGED <<users, store, now, issued, registered, inflight>>

NextFault ==
    \/ \E x \in StoreFaults, e \in Emails, p \in Passwords, f \in Profiles :
          RegisterOn(x, e, p, f[1], f[2])
    \/ \E x \in ReadFaults, e \in Emails, p \in Passwords : LoginOn(x, e, p)
    \/ \E x \in ReadFaults, b \in Bearers : RefreshOn(x, b)
    \/ \E x \in ReadFaults, b \in Bearers : GetMeOn(x, b)

SpecFault == InitAdmin /\ [][NextFault]_vars

(***************************************************************************)
(* The leads: contact forms are submitted by the public and read, updated  *)
(* and deleted by the administrator as time passes.  An update supplies a  *)
(* status, None for the status, or no field at all.                        *)
(***************************************************************************)
NoFields == [f \in {} |-> None]
UpdateConsultationRequestRequests ==
    {[status |-> v] : v \in ConsultationStatus \cup {None}} \cup {NoFields}

NextLeads ==
    \/ Tick
    \/ \E r \in ContactForms : SubmitContactForm(r, "sent")
    \/ \E b \in AdminBearers, i \in Ids :
          \/ GetContactForm(b, i)
          \/ DeleteContactForm(b, i)
          \/ \E r \in UpdateConsultationRequestRequests :
                UpdateContactForm(b, i, r)
    \/ \E b \in AdminBearers, n \in PageNumbers, l \in Limits :
          \E q \in OrderedBy(ConsultationRequestMatching(forms, {}),
                              "requested_at", TRUE) :
             ListContactForms(b, n, l, {}, q)

SpecLeads == InitAdmin /\ [][NextLeads]_vars

(***************************************************************************)
(* The records: one table holds MaxRows rows, created at instant 0, and    *)
(* the administrator updates and deletes rows of every table by id, with   *)
(* requests that supply one field, several fields or none, for ids that    *)
(* exist and for one that does not.                                        *)
(***************************************************************************)
TargetIds == 1..(MaxRows + 1)
SeedPages ==
    {Page(i, [slug |-> <<"home", "about", "contact", "pricing">>[i],
              title |-> "Home", is_published |-> (i % 2 = 0)], 0) :
        i \in 1..MaxRows}
SeedTestimonials ==
    {Testimonial(i, [author_name |-> "Cy", quote |-> "Great",
                     order_index |-> 0, is_approved |-> (i % 2 = 0)], 0) :
        i \in 1..MaxRows}
SeedFaqs ==
    {FAQItem(i, [question |-> "Why?", answer |-> "Because.",
                 display_order |-> 0, is_published |-> (i % 2 = 1)], 0) :
        i \in 1..MaxRows}
SeedDisclaimers ==
    {Disclaimer(i, [name |-> <<"terms", "privacy", "cookies", "refunds">>[i],
                    content |-> "Terms.", is_active |-> (i % 2 = 1)], 0) :
        i \in 1..MaxRows}
SeedForms ==
    UNION {submit_contact_form({}, i, 0, r, "sent").rows :
              i \in 1..MaxRows, r \in ContactForms}

PageChanges ==
    {[title |-> "Start"], [is_published |-> TRUE],
     [title |-> "Start", is_published |-> FALSE], NoFields}
TestimonialChanges ==
    {[quote |-> "Fine"], [order_index |-> 1, is_approved |-> TRUE], NoFields}
FaqChanges ==
    {[answer |-> "So."], [display_order |-> 1, is_published |-> FALSE],
     NoFields}
DisclaimerChanges ==
    {[content |-> "New terms."], [name |-> "terms"], [is_active |-> FALSE],
     NoFields}

\* The state after the administrator registered at instant 0 and the rows
\* of one table were created, one minute later.
InitRecords ==
    LET out == register_admin_user({}, AdminEmail, AdminPassword, "Ann", {}, 0)
    IN \E k \in {"pages", "testimonials", "faqs", "disclaimers", "forms"} :
          /\ users = out.users
          /\ pages = IF k = "pages" THEN SeedPages ELSE {}
          /\ testimonials = IF k = "testimonials" THEN SeedTestimonials ELSE {}
          /\ faqs = IF k = "faqs" THEN SeedFaqs ELSE {}
          /\ disclaimers = IF k = "disclaimers" THEN SeedDisclaimers ELSE {}
          /\ forms = IF k = "forms" THEN SeedForms ELSE {}
          /\ nextId = MaxRows + 1
          /\ now = 1
          /\ issued = Keep({}, out.response.token, 0)
          /\ registered = {[email |-> AdminEmail, password |-> AdminPassword]}
          /\ last = Idle
          /\ inflight = [c \in Callers |-> NoRequest]

\* No header, or a token the administrator holds.
HeldBearers == {{}} \cup {{k} : k \in Known}

NextRecords ==
    \E b \in HeldBearers, i \in TargetIds :
       \/ DeletePage(b, i)
       \/ DeleteTestimonial(b, i)
       \/ DeleteFaq(b, i)
       \/ DeleteDisclaimer(b, i)
       \/ DeleteContactForm(b, i)
       \/ \E r \in PageChanges : UpdatePage(b, i, r)
       \/ \E r \in TestimonialChanges : UpdateTestimonial(b, i, r)
       \/ \E r \in FaqChanges : UpdateFaq(b, i, r)
       \/ \E r \in DisclaimerChanges : UpdateDisclaimer(b, i, r)
       \/ \E r \in UpdateConsultationRequestRequests :
             UpdateContactForm(b, i, r)

SpecRecords == InitRecords /\ [][NextRecords]_vars

(***************************************************************************)
(* The lists: the store is left as it is and the administrator reads the   *)
(* list endpoints page by page, with and without a filter.  Each request   *)
(* is a query of its own: the database returns the selected rows in any    *)
(* order the ORDER BY of the statement allows, every order when there is   *)
(* none and any order among rows with equal sort keys.                     *)
(***************************************************************************)
ListPageNumbers == 1..(MaxRows + 1)
ListLimits == 1..MaxRows
\* An optional boolean filter: not given, true, false.
Flags == {{}, {TRUE}, {FALSE}}
StatusFilters == {{}, {"new"}, {"contacted"}}

\* The orders in which the statement of each list endpoint may return the
\* rows it selects.
PageOrders(tbl) == Perms(tbl)
TestimonialOrders(tbl, is_approved) ==
    OrderedBy(TestimonialMatching(tbl, is_approved), "order_index", FALSE)
FaqOrders(tbl, is_published) ==
    OrderedBy(FAQItemMatching(tbl, is_published), "display_order", FALSE)
DisclaimerOrders(tbl, is_active) == Perms(DisclaimerMatching(tbl, is_active))
ContactFormOrders(tbl, status) ==
    OrderedBy(ConsultationRequestMatching(tbl, status), "requested_at", TRUE)

NextLists ==
    \E b \in HeldBearers, n \in ListPageNumbers, l \in ListLimits :
       \/ \E q \in PageOrders(pages) : ListPages(b, n, l, q)
       \/ \E f \in Flags : \E q \in TestimonialOrders(testimonials, f) :
             ListTestimonials(b, n, l, f, q)
       \/ \E f \in Flags : \E q \in FaqOrders(faqs, f) :
             ListFaqs(b, n, l, f, q)
       \/ \E f \in Flags : \E q \in DisclaimerOrders(disclaimers, f) :
             ListDisclaimers(b, n, l, f, q)
       \/ \E f \in StatusFilters : \E q \in ContactFormOrders(forms, f) :
             ListContactForms(b, n, l, f, q)

SpecLists == InitRecords /\ [][NextLists]_vars

(***************************************************************************)
(* Properties of the authentication subsystem, checked under Spec.         *)
(***************************************************************************)
TTL == ACCESS_TOKEN_EXPIRE_MINUTES

\* The identity stored under an email, as a set.
Account(us, email) == {u \in us : u.email = email}

\* The conditions of section 4.4 under which a request is admitted, stated
\* on the token and the table.
Admissible(us, bearer, t) ==
    \E k \in bearer :
        /\ k.sig = Mac(SECRET_KEY, k.sub, k.exp)
        /\ t < k.exp
        /\ \E u \in us : u.email = k.sub /\ u.is_active

\* Every token a caller was given, with its instant of issue.  The token of
\* the last response was issued at the current instant.
Issues == issued \cup {[token |-> k, at |-> now] : k \in last.token}

GuardedAuthOps == {"refresh", "me"}

\* C1: the Identity Resolver never returns Authorized for an identity whose
\* active flag is false; a token issued for an account that is deactivated
\* afterwards resolves to Unauthorized even while now < its expiry, and the
\* guarded endpoints answer it with the rejection.
C1_InactiveNeverAuthorized ==
    /\ \A b \in Bearers :
          \A u \in get_current_user(users, b, now).user :
              u \in users /\ u.is_active
    /\ \A i \in Issues :
          (\E u \in users : u.email = i.token.sub /\ ~u.is_active)
              => /\ get_current_user(users, {i.token}, now).tag = "Unauthorized"
                 /\ refresh_auth_token(users, {i.token}, now).status
                        = HTTP_401_UNAUTHORIZED
                 /\ get_current_admin_user(users, {i.token}, now).status
                        = HTTP_401_UNAUTHORIZED
    /\ (last.op \in GuardedAuthOps /\ last.status = HTTP_200_OK)
          => \E k \in last.bearer : \E u \in users :
                 u.email = k.sub /\ u.is_active

\* A token still within its validity window was presented after its account
\* was deactivated, and the request was rejected.
C1_Witness ==
    \E i \in issued :
        /\ now < i.token.exp
        /\ i.at < now
        /\ \E u \in users : u.email = i.token.sub /\ ~u.is_active
        /\ last.op = "me"
        /\ last.bearer = {i.token}
        /\ last.status = HTTP_401_UNAUTHORIZED

\* C2: for every registered (email, password), whatever was called since,
\* login succeeds and returns one token; while the account is active that
\* token resolves, at every instant before its expiry, to the identity with
\* exactly that email.
C2_RegisteredLoginResolves ==
    \A r \in registered :
        LET response == login_admin_user(users, r.email, r.password, now)
        IN /\ response.status = HTTP_200_OK
           /\ Cardinality(response.token) = 1
           /\ \A k \in response.token :
                 \A t \in Instants :
                     (now <= t /\ t < k.exp
                        /\ \E u \in users : u.email = r.email /\ u.is_active)
                     => LET g == get_current_user(users, {k}, t)
                        IN /\ g.tag = "Authorized"
                           /\ g.user = Account(users, r.email)
                           /\ Cardinality(g.user) = 1

\* A login succeeded at a later instant, with both accounts registered.
C2_Witness ==
    /\ last.op = "login"
    /\ last.status = HTTP_200_OK
    /\ Cardinality(users) = 2
    /\ now > 0
    /\ \E k \in last.token :
          get_current_user(users, {k}, now).tag = "Authorized"

\* C3: a login with an email that has no identity and a login with an
\* existing email and a wrong password get the same response: status,
\* message, headers and the rest of the response are equal.
C3_LoginFailuresIndistinguishable ==
    \A e1 \in Emails, e2 \in Emails, p1 \in Passwords, p2 \in Passwords :
        (/\ Account(users, e1) = {}
         /\ \E u \in Account(users, e2) :
                ~verify_password(p2, u.hashed_password))
        => /\ login_admin_user(users, e1, p1, now)
                = login_admin_user(users, e2, p2, now)
           /\ login_admin_user(users, e1, p1, now).status
                = HTTP_401_UNAUTHORIZED

\* A login failed while one email is registered and the other is not.
C3_Witness ==
    /\ last.op = "login"
    /\ last.status = HTTP_401_UNAUTHORIZED
    /\ \E e1 \in Emails, e2 \in Emails :
          Account(users, e1) = {} /\ Account(users, e2) # {}

\* The operations of the admin-prefixed endpoints.
AdminOps ==
    {"list_pages", "create_page", "get_page", "update_page", "delete_page",
     "list_testimonials", "create_testimonial", "update_testimonial",
     "delete_testimonial",
     "list_faqs", "create_faq", "update_faq", "delete_faq",
     "list_disclaimers", "create_disclaimer", "update_disclaimer",
     "delete_disclaimer",
     "list_contact_forms", "get_contact_form", "update_contact_form",
     "delete_contact_form"}

\* C4: a request to an admin endpoint whose bearer token the resolver does
\* not resolve to Authorized leaves every table of the store unchanged and
\* is answered by the guard's rejection alone: status 401, the generic
\* message, no rows and no totals of the store.
C4_AdminOnlyThroughResolver ==
    [][(/\ last'.op \in AdminOps
        /\ get_current_user(users, last'.bearer, now).tag # "Authorized")
       => /\ store' = store
          /\ last' = Exchange(last'.op, last'.bearer, Rejected(GuardRejection))
      ]_vars

\* A delete of a page was rejected for a token with a correct signature
\* (expired, or of a deactivated administrator) while a page is stored.
C4_Witness ==
    /\ last.op = "delete_page"
    /\ last.status = HTTP_401_UNAUTHORIZED
    /\ \E k \in last.bearer : k.sig = Mac(SECRET_KEY, k.sub, k.exp)
    /\ pages # {}

\* C5: resolve passes once through present, validate, reload and ends
\* Authorized or Unauthorized; it ends Authorized, with the stored identity,
\* iff a token is present, its signature is correct, now < its expiry, and
\* an active identity with the subject's email is stored.
C5_ResolveSinglePass ==
    \A b \in Bearers :
        LET g == get_current_user(users, b, now)
        IN /\ g.tag \in {"Authorized", "Unauthorized"}
           /\ (g.tag = "Authorized") <=> Admissible(users, b, now)
           /\ g.tag = "Authorized"
                => /\ Cardinality(g.user) = 1
                   /\ \A k \in b : g.user = Account(users, k.sub)
           /\ g.tag = "Unauthorized" => g.user = {}
           /\ Len(g.trace) \in 1..3
           /\ g.trace = SubSeq(<<"present", "validate", "reload">>, 1,
                               Len(g.trace))
           /\ g.tag = "Authorized" => Len(g.trace) = 3

\* A guarded request was admitted while another token a caller can present
\* is turned down only at the reload stage.
C5_Witness ==
    /\ last.op = "me"
    /\ last.auth = "Authorized"
    /\ \E b \in Bearers :
          LET g == get_current_user(users, b, now)
          IN g.tag = "Unauthorized" /\ Len(g.trace) = 3

\* C6: a token issued at t0 is accepted by validate at every instant
\* t0 <= t < t0 + TTL and rejected as Expired at every t >= t0 + TTL,
\* t = t0 + TTL included; once rejected it is rejected at every later one.
C6_ExpiryBoundary ==
    \A i \in Issues :
        /\ \A t \in Instants :
              t >= i.at =>
                LET claim == decode_token(i.token, t)
                IN /\ t < i.at + TTL => claim.ok /\ claim.sub = i.token.sub
                   /\ t >= i.at + TTL
                        => ~claim.ok /\ claim.reason = "Expired"
        /\ \A t1 \in Instants, t2 \in Instants :
              (i.at <= t1 /\ t1 <= t2 /\ ~decode_token(i.token, t1).ok)
                  => ~decode_token(i.token, t2).ok

\* A token is presented exactly at its expiry instant and rejected, its
\* account being active.
C6_Witness ==
    \E i \in issued :
        /\ now = i.at + TTL
        /\ \E u \in users : u.email = i.token.sub /\ u.is_active
        /\ last.op = "me"
        /\ last.bearer = {i.token}
        /\ last.status = HTTP_401_UNAUTHORIZED

\* C7: register with an email that already has an identity answers 409
\* (AlreadyExists), returns no token and leaves admin_users as it was, so
\* the first account keeps its hash, name, role and active flag; login with
\* the password it was registered with still succeeds afterwards.
C7_DuplicateEmailConflict ==
    /\ \A e \in Emails, p \in Passwords, f \in Profiles :
          Account(users, e) # {} =>
            LET out == register_admin_user(users, e, p, f[1], f[2], now)
            IN /\ out.response.status = HTTP_409_CONFLICT
               /\ out.response.detail = "User with this email already exists"
               /\ out.response.token = {}
               /\ out.users = users
               /\ \A r \in registered :
                     login_admin_user(out.users, r.email, r.password,
                                      now).status = HTTP_200_OK
    /\ \A r \in registered :
          \E u \in users :
              u.email = r.email /\ verify_password(r.password, u.hashed_password)

\* A register call was answered with the conflict.
C7_Witness ==
    /\ last.op = "register"
    /\ last.status = HTTP_409_CONFLICT
    /\ registered # {}

\* C8, as claimed: register with a password shorter than 8 characters
\* returns WeakPassword (400) whatever the email, persists nothing and
\* issues no token; a password of exactly 8 characters is not rejected for
\* weakness.
C8_ShortPasswordAlwaysWeak ==
    \A e \in Emails, p \in Passwords, f \in Profiles :
        LET out == register_admin_user(users, e, p, f[1], f[2], now)
        IN /\ Len(p) < 8
              => /\ out.response.status = HTTP_400_BAD_REQUEST
                 /\ out.users = users
                 /\ out.response.token = {}
           /\ Len(p) = 8 => out.response.status # HTTP_400_BAD_REQUEST

\* C8, amended: register with a password shorter than 8 characters persists
\* nothing and issues no token; it returns WeakPassword (400) when the email
\* is not registered yet and AlreadyExists (409), which is checked first,
\* when it is; a password of exactly 8 characters is not rejected for
\* weakness.
C8_ShortPasswordRejected ==
    \A e \in Emails, p \in Passwords, f \in Profiles :
        LET out == register_admin_user(users, e, p, f[1], f[2], now)
        IN /\ Len(p) < 8
              => /\ out.users = users
                 /\ out.response.token = {}
                 /\ Account(users, e) = {}
                      => /\ out.response.status = HTTP_400_BAD_REQUEST
                         /\ out.response.detail
                              = "Password must be at least 8 characters long"
                 /\ Account(users, e) # {}
                      => out.response.status = HTTP_409_CONFLICT
           /\ Len(p) = 8 => out.response.status # HTTP_400_BAD_REQUEST

\* A register call was rejected for a weak password while an account exists.
C8_Witness ==
    /\ last.op = "register"
    /\ last.status = HTTP_400_BAD_REQUEST
    /\ users # {}

\* C9: register with a new email and a password of at least 8 characters
\* answers 201, adds exactly one identity to admin_users, with the given
\* email, name and role ("admin" when left out), a fresh id, a hash of the
\* password, active; the response carries one token whose subject is that
\* email and which the resolver accepts as the new identity.
C9_RegisterCreatesAndLogsIn ==
    /\ \A e \in Emails, p \in Passwords, f \in Profiles :
          (Account(users, e) = {} /\ Len(p) >= 8) =>
            LET out == register_admin_user(users, e, p, f[1], f[2], now)
                new == out.users \ users
            IN /\ out.response.status = HTTP_201_CREATED
               /\ users \subseteq out.users
               /\ Cardinality(new) = 1
               /\ \A u \in new :
                     /\ u.email = e
                     /\ u.full_name = f[1]
                     /\ u.role = (IF f[2] = {} THEN "admin"
                                  ELSE CHOOSE x \in f[2] : TRUE)
                     /\ u.is_active
                     /\ verify_password(p, u.hashed_password)
                     /\ \A v \in users : v.id # u.id
               /\ Cardinality(out.response.token) = 1
               /\ \A k \in out.response.token :
                     /\ k.sub = e
                     /\ get_current_user(out.users, {k}, now)
                          = [tag |-> "Authorized", user |-> new,
                             trace |-> <<"present", "validate", "reload">>]
    /\ (last.op = "register" /\ last.status = HTTP_201_CREATED)
          => \E k \in last.token :
                 /\ Cardinality(Account(users, k.sub)) = 1
                 /\ get_current_user(users, {k}, now).user
                      = Account(users, k.sub)

\* A second account was registered, with a role given in the request.
C9_Witness ==
    /\ last.op = "register"
    /\ last.status = HTTP_201_CREATED
    /\ Cardinality(users) = 2
    /\ \E k \in last.token : \E u \in users :
          u.email = k.sub /\ u.role = "editor"

\* C10: refresh answers 200 iff the bearer token is admissible (present,
\* signed with the secret, not expired, its account stored and active);
\* then it returns one token issued at the refresh instant: subject the
\* caller's stored email, expiry now + TTL; otherwise it answers 401 and
\* returns no token.
C10_RefreshIssuesFreshToken ==
    \A b \in Bearers :
        LET response == refresh_auth_token(users, b, now)
        IN /\ (response.status = HTTP_200_OK) <=> Admissible(users, b, now)
           /\ Admissible(users, b, now)
                => /\ Cardinality(response.token) = 1
                   /\ \A k \in response.token, old \in b :
                         /\ \E u \in users : u.email = old.sub /\ k.sub = u.email
                         /\ k.exp = now + TTL
                         /\ k = create_access_token(old.sub, TTL, now)
                   /\ response.expires_in = TTL * 60
           /\ ~Admissible(users, b, now)
                => /\ response.status = HTTP_401_UNAUTHORIZED
                   /\ response.token = {}

\* A refresh was admitted and returned a token that expires later than the
\* one presented.
C10_Witness ==
    /\ last.op = "refresh"
    /\ last.status = HTTP_200_OK
    /\ \E old \in last.bearer, k \in last.token :
          k.sub = old.sub /\ k.exp > old.exp

\* The fields of an exchange that every response has.
ResponseFields ==
    {"op", "bearer", "auth", "status", "detail", "headers", "token",
     "expires_in", "body"}

\* The text a response shows: its message, its headers, and the text columns
\* of the rows of its body.
ShownText(r) ==
    {r.detail} \cup r.headers
      \cup UNION {{r.body[i].email, r.body[i].full_name, r.body[i].role}
                    : i \in DOMAIN r.body}

\* What an auth response may hold.  A token response (200 or 201 of register,
\* login, refresh): access_token, token_type and expires_in and nothing else;
\* the token is subject, expiry and signature.  A current-identity response:
\* one row of exactly id, email, full_name, role, is_active, copied from the
\* stored identity.  Any other response: a message only.  No text shown is
\* a password.
Discloses(r, us, tokenOp) ==
    \/ ShownText(r) \cap Passwords # {}
    \/ /\ r.status \in {HTTP_200_OK, HTTP_201_CREATED} /\ tokenOp
       /\ ~(/\ DOMAIN r = (ResponseFields \ {"op", "bearer"}) \cup {"token_type"}
            /\ r.token_type = "bearer"
            /\ r.expires_in = TTL * 60
            /\ r.body = <<>> /\ r.detail = "" /\ r.headers = {}
            /\ Cardinality(r.token) = 1
            /\ \A k \in r.token :
                  /\ DOMAIN k = {"sub", "exp", "sig"}
                  /\ k.sub \in Emails /\ k.exp \in Nat
                  /\ k.sig = Mac(SECRET_KEY, k.sub, k.exp))
    \/ /\ r.status = HTTP_200_OK /\ ~tokenOp
       /\ ~(/\ DOMAIN r = ResponseFields \ {"op", "bearer"}
            /\ r.token = {} /\ r.detail = "" /\ r.headers = {}
            /\ Len(r.body) = 1
            /\ DOMAIN r.body[1]
                 = {"id", "email", "full_name", "role", "is_active"}
            /\ \E u \in us :
                  r.body[1] = [id |-> u.id, email |-> u.email,
                               full_name |-> u.full_name, role |-> u.role,
                               is_active |-> u.is_active])
    \/ /\ r.status \notin {HTTP_200_OK, HTTP_201_CREATED}
       /\ ~(/\ DOMAIN r = ResponseFields \ {"op", "bearer"}
            /\ r.token = {} /\ r.body = <<>>)

\* C11: no response of register, login, refresh or current-identity holds a
\* password hash or a raw password: a token response carries access_token,
\* token_type and expires_in only, the current-identity response exactly
\* id, email, full_name, role and is_active, an error a message only.
C11_NoPasswordInResponses ==
    /\ \A e \in Emails, p \in Passwords, f \in Profiles :
          LET out == register_admin_user(users, e, p, f[1], f[2], now)
          IN ~Discloses(out.response, out.users, TRUE)
    /\ \A e \in Emails, p \in Passwords :
          ~Discloses(login_admin_user(users, e, p, now), users, TRUE)
    /\ \A b \in Bearers :
          /\ ~Discloses(refresh_auth_token(users, b, now), users, TRUE)
          /\ ~Discloses(get_current_admin_user(users, b, now), users, FALSE)
    /\ last.op = "me" /\ last.status = HTTP_200_OK
          => /\ DOMAIN last = ResponseFields
             /\ DOMAIN last.body[1]
                  = {"id", "email", "full_name", "role", "is_active"}

\* The current identity was returned for an account registered with a
\* password.
C11_Witness ==
    /\ last.op = "me"
    /\ last.status = HTTP_200_OK
    /\ \E u \in users, r \in registered :
          /\ u.id = last.body[1].id
          /\ r.email = u.email
          /\ verify_password(r.password, u.hashed_password)

\* C12: in every state, so also right after a role change or an activation
\* or deactivation written to admin_users, resolve with a token issued
\* earlier and not expired returns the identity as it is stored now: it is
\* Unauthorized while the account is inactive, and otherwise the stored
\* record, whose role and active flag the current-identity response shows.
C12_ResolveReturnsLiveIdentity ==
    /\ \A i \in Issues :
          LET g == get_current_user(users, {i.token}, now)
              me == get_current_admin_user(users, {i.token}, now)
          IN \A u \in Account(users, i.token.sub) :
                /\ (now < i.token.exp /\ u.is_active)
                      => /\ g.tag = "Authorized"
                         /\ g.user = {u}
                         /\ me.status = HTTP_200_OK
                         /\ me.body[1].role = u.role
                         /\ me.body[1].is_active = u.is_active
                /\ ~u.is_active
                      => /\ g.tag = "Unauthorized"
                         /\ me.status = HTTP_401_UNAUTHORIZED
    /\ (last.op = "me" /\ last.status = HTTP_200_OK)
          => \E u \in users :
                /\ u.id = last.body[1].id
                /\ last.body[1].role = u.role
                /\ last.body[1].is_active = u.is_active

\* The token of the registration, issued while the role was "admin", was
\* presented later and the response shows the role written since.
C12_Witness ==
    /\ last.op = "me"
    /\ last.status = HTTP_200_OK
    /\ last.body[1].role = "editor"
    /\ \E i \in issued :
          /\ last.bearer = {i.token}
          /\ i.at < now
          /\ i.token = create_access_token(AdminEmail, TTL, 0)

\* The requests that only issue or resolve tokens.
TokenOps == {"login", "refresh", "me"}

\* C13: a login, refresh or current-identity request changes nothing on the
\* server (admin_users, the resource tables, the clock); every token a
\* caller held before it resolves afterwards exactly as before, whether or
\* not a new token was issued; and a held token resolves to Authorized iff
\* its signature is correct, now < its expiry, and an active identity with
\* its subject is stored.
C13_TokensStatelessNeverRevoked ==
    [][last'.op \in TokenOps
       => /\ users' = users
          /\ store' = store
          /\ now' = now
          /\ \A k \in Known :
                /\ get_current_user(users', {k}, now')
                     = get_current_user(users, {k}, now)
                /\ get_current_user(users', {k}, now').tag = "Authorized"
                     <=> /\ k.sig = Mac(SECRET_KEY, k.sub, k.exp)
                         /\ now' < k.exp
                         /\ \E u \in users' : u.email = k.sub /\ u.is_active
      ]_vars

\* A login at a later instant returned a new token while the token issued
\* earlier for the same account is held and still resolves.
C13_Witness ==
    /\ last.op = "login"
    /\ last.status = HTTP_200_OK
    /\ \E i \in issued, k \in last.token :
          /\ i.at < now
          /\ i.token # k
          /\ i.token.sub = k.sub
          /\ get_current_user(users, {i.token}, now).tag = "Authorized"

\* The generic internal error: 500, the fixed message, nothing else.
InternalError(r) ==
    /\ r.status = HTTP_500_INTERNAL_SERVER_ERROR
    /\ r.status \notin {HTTP_200_OK, HTTP_201_CREATED, HTTP_401_UNAUTHORIZED}
    /\ r.detail = "Internal server error"
    /\ r.detail \notin {StoreError.message, StoreError.type}
    /\ r.headers = {}
    /\ r.token = {}
    /\ r.body = <<>>

\* C14: when the database fails at the select of register or login, at the
\* commit of a register that passed its checks, or at the guard's select
\* for a token that validated, the response is the generic internal error
\* (500, "Internal server error"): not 401, not a success, and without the
\* text of the underlying error.
C14_StoreFailureIsInternalError ==
    /\ \A e \in Emails, p \in Passwords, f \in Profiles :
          /\ InternalError(app_register_admin_user(
                               users, e, p, f[1], f[2], now, "select").response)
          /\ (Account(users, e) = {} /\ Len(p) >= MIN_PASSWORD_LENGTH)
                => InternalError(app_register_admin_user(
                               users, e, p, f[1], f[2], now, "commit").response)
    /\ \A e \in Emails, p \in Passwords :
          InternalError(app_login_admin_user(users, e, p, now, "select"))
    /\ \A b \in Bearers :
          (\E k \in b : k.sig = Mac(SECRET_KEY, k.sub, k.exp) /\ now < k.exp)
            => /\ InternalError(app_refresh_auth_token(users, b, now, "select"))
               /\ InternalError(app_get_current_admin_user(users, b, now,
                                                           "select"))
    /\ last.auth = "Error" => InternalError(last)

\* The database failed under a current-identity request that is admitted
\* when the database answers.
C14_Witness ==
    /\ last.op = "me"
    /\ last.status = HTTP_500_INTERNAL_SERVER_ERROR
    /\ get_current_admin_user(users, last.bearer, now).status = HTTP_200_OK

\* C15, as claimed: once admin_users holds an identity, a register call,
\* which carries no token and passes no guard, adds no identity.
C15_RegisterOnlyInitialSetup ==
    \A e \in Emails, p \in Passwords, f \in Profiles :
        users # {}
          => register_admin_user(users, e, p, f[1], f[2], now).users = users

\* C16: in every state, whatever the interleaving of the register
\* requests, no two rows of admin_users have the same email.
C16_EmailUnique ==
    \A u \in users, v \in users : u.email = v.email => u = v

\* Two requests for one email had both passed the check before either
\* committed; one has committed and the other's commit was refused.
C16_Witness ==
    \E c \in Callers, d \in Callers :
        /\ c # d
        /\ inflight[c].passed /\ inflight[d].passed
        /\ inflight[c].pc = "done" /\ inflight[d].pc = "done"
        /\ \E r \in inflight[c].request, q \in inflight[d].request :
              r.email = q.email
        /\ \E x \in inflight[c].response : x.status = HTTP_201_CREATED
        /\ \E y \in inflight[d].response : y.status # HTTP_201_CREATED

\* C19, as claimed: when two register requests for one email, both with
\* passwords of at least 8 characters, have both passed the existence check
\* before either committed, then once both are answered exactly one has
\* created the identity and got a token (201) and the other has got
\* AlreadyExists (409).
C19_RaceLoserGetsConflict ==
    \A c \in Callers, d \in Callers :
        (/\ c # d
         /\ inflight[c].passed /\ inflight[d].passed
         /\ inflight[c].pc = "done" /\ inflight[d].pc = "done"
         /\ \E r \in inflight[c].request, q \in inflight[d].request :
               r.email = q.email)
        => \E x \in inflight[c].response, y \in inflight[d].response :
              \/ /\ x.status = HTTP_201_CREATED /\ x.token # {}
                 /\ y.status = HTTP_409_CONFLICT
              \/ /\ y.status = HTTP_201_CREATED /\ y.token # {}
                 /\ x.status = HTTP_409_CONFLICT

\* C17: a token string that differs from the tokens issued in its
\* signature segment, its subject or its expiry, and was not made by issue
\* with the secret, is Malformed for validate at every instant; validate
\* returns a claim only for a string issue produced, and the claim is that
\* string's own subject before that string's own expiry.
C17_TamperedTokenRejected ==
    /\ \A f \in Forged, t \in Instants :
          /\ ~decode_token(f, t).ok
          /\ decode_token(f, t).reason = "Malformed"
          /\ get_current_user(users, {f}, t).tag = "Unauthorized"
    /\ \A k \in Known \cup Forged, t \in Instants :
          decode_token(k, t).ok
            => /\ \E i \in Issues :
                     k = i.token /\ k = create_access_token(k.sub, TTL, i.at)
               /\ decode_token(k, t).sub = k.sub
               /\ t < k.exp

\* A held token that resolves was presented with its expiry moved one
\* minute later, and was rejected.
C17_Witness ==
    /\ last.op = "me"
    /\ last.status = HTTP_401_UNAUTHORIZED
    /\ \E i \in issued :
          /\ last.bearer = {[i.token EXCEPT !.exp = i.token.exp + 1]}
          /\ get_current_user(users, {i.token}, now).tag = "Authorized"

\* A full name that is empty or has spaces only.
Blank(str) == \A i \in DOMAIN str : str[i] = " "

\* C18: submit_contact_form with a full name that is not blank adds exactly
\* one row to consultation_requests, with a fresh id and status new, and
\* answers 201 with that id, the same whether the notification email was
\* sent, skipped or failed; with an empty or whitespace-only full name it
\* answers 400 and adds nothing.
C18_ContactFormPersistsOnce ==
    /\ \A r \in ContactForms, m \in MailOutcomes :
          LET out == submit_contact_form(forms, nextId, now, r, m)
              new == out.rows \ forms
          IN /\ ~Blank(r.full_name)
                  => /\ out.response.status = HTTP_201_CREATED
                     /\ forms \subseteq out.rows
                     /\ Cardinality(new) = 1
                     /\ \A x \in new :
                           /\ x.status = "new"
                           /\ x.email = r.email
                           /\ \A y \in forms : y.id # x.id
                           /\ out.response.body = <<[id |-> x.id]>>
                     /\ out = submit_contact_form(forms, nextId, now, r, "sent")
             /\ Blank(r.full_name)
                  => /\ out.response.status = HTTP_400_BAD_REQUEST
                     /\ out.response.body = <<>>
                     /\ out.rows = forms
    /\ (last.op = "submit_contact_form" /\ last.status = HTTP_201_CREATED)
          => \E x \in forms : x.id = last.body[1].id /\ x.status = "new"
    /\ last.op = "submit_contact_form"
          => last.status \in {HTTP_201_CREATED, HTTP_400_BAD_REQUEST}

\* A contact form was submitted and its row is stored, the name split at
\* the first space.
C18_Witness ==
    /\ last.op = "submit_contact_form"
    /\ last.status = HTTP_201_CREATED
    /\ \E x \in forms :
          /\ x.id = last.body[1].id
          /\ x.first_name = <<"A", "l">>
          /\ x.last_name = <<"B">>
          /\ x.status = "new"

PublicReads ==
    {"get_website_content_by_slug", "get_approved_testimonials",
     "get_active_disclaimers", "get_published_faqs"}

\* The ids of the rows a response returns.
ShownIds(r) == {r.body[i].id : i \in DOMAIN r.body}

\* C20: in every state reached by admin creates, updates and deletes, a
\* public read returns exactly the rows that are visible now: content by
\* slug answers with the page iff a page with the slug is stored and
\* published, and with 404 otherwise; testimonials, disclaimers and FAQs
\* list the approved, active and published rows and no other; and the rows
\* of the last public response are all visible in the tables as they are.
C20_PublicReadsOnlyVisible ==
    /\ \A g \in Slugs : \A q \in Perms(PublishedPages(pages, g)) :
          LET r == get_website_content_by_slug(g, q)
              visible == {p \in pages : p.slug = g /\ p.is_published = TRUE}
          IN /\ ShownIds(r) \subseteq {p.id : p \in visible}
             /\ (r.status = HTTP_200_OK) <=> (visible # {})
             /\ visible = {} => r.status = HTTP_404_NOT_FOUND /\ r.body = <<>>
    /\ \A q \in Perms(ApprovedTestimonials(testimonials)) :
          ShownIds(get_approved_testimonials(q))
            = {x.id : x \in {y \in testimonials : y.is_approved = TRUE}}
    /\ \A q \in Perms(ActiveDisclaimers(disclaimers)) :
          ShownIds(get_active_disclaimers(q))
            = {x.id : x \in {y \in disclaimers : y.is_active = TRUE}}
    /\ \A q \in Perms(PublishedFaqs(faqs)) :
          ShownIds(get_published_faqs(q))
            = {x.id : x \in {y \in faqs : y.is_published = TRUE}}
    /\ last.op = "get_website_content_by_slug"
          => ShownIds(last) \subseteq {p.id : p \in {x \in pages : x.is_published}}
    /\ last.op = "get_approved_testimonials"
          => ShownIds(last) = {p.id : p \in {x \in testimonials : x.is_approved}}
    /\ last.op = "get_active_disclaimers"
          => ShownIds(last) = {p.id : p \in {x \in disclaimers : x.is_active}}
    /\ last.op = "get_published_faqs"
          => ShownIds(last) = {p.id : p \in {x \in faqs : x.is_published}}

\* The FAQ, created published, has been unpublished by an admin update and
\* the public list that follows is empty.
C20_Witness ==
    /\ last.op = "get_published_faqs"
    /\ last.body = <<>>
    /\ \E f \in faqs : ~f.is_published

\* The operations on consultation_requests.
LeadOps == {"submit_contact_form", "update_contact_form", "delete_contact_form"}

\* C21: every stored ConsultationRequest has a status that is one of new,
\* contacted, qualified and archived; a row that appears in the table has
\* status new, and the status of a stored row changes only in a step of
\* update_contact_form.
C21_StatusAlwaysInEnumeration ==
    /\ [](\A r \in forms : r.status \in ConsultationStatus)
    /\ [][/\ \A x \in forms' :
                (\A y \in forms : y.id # x.id) => x.status = "new"
          /\ \A x \in forms', y \in forms :
                (x.id = y.id /\ x.status # y.status)
                    => last'.op = "update_contact_form"
         ]_vars

\* The columns no update request can name.
FixedColumns == {"id", "slug", "created_at", "requested_at"}

\* tbl2 is tbl with the row id rewritten: the fields of the request have
\* the values supplied, updated_at is t, every other field and every
\* other row is as before.
OnlySupplied(tbl, tbl2, id, request, t) ==
    \E old \in tbl : \E new \in tbl2 :
        /\ old.id = id
        /\ new.id = id
        /\ tbl2 \ {new} = tbl \ {old}
        /\ DOMAIN new = DOMAIN old
        /\ DOMAIN request \cap (FixedColumns \cup {"updated_at"}) = {}
        /\ \A f \in DOMAIN old :
              new[f] = IF f = "updated_at" THEN t
                       ELSE IF f \in DOMAIN request THEN request[f]
                       ELSE old[f]

\* What an update of id answered with out must satisfy.
UpdateFrame(tbl, out, id, request, t) ==
    /\ Get(tbl, id) = {}
          => out.response.status = HTTP_404_NOT_FOUND /\ out.rows = tbl
    /\ out.response.status = HTTP_200_OK
          => OnlySupplied(tbl, out.rows, id, request, t)

\* What a delete of id answered with out must satisfy when id is missing.
DeleteFrame(tbl, out, id) ==
    Get(tbl, id) = {}
        => out.response.status = HTTP_404_NOT_FOUND /\ out.rows = tbl

\* A step of the operations ops on the table (tbl before, tbl2 after)
\* touches rows of one id at most, and none when it answers 404.
OneRow(ops, response, tbl, tbl2) ==
    response.op \in ops
        => /\ Cardinality({r.id : r \in (tbl \ tbl2) \cup (tbl2 \ tbl)}) <= 1
           /\ response.status = HTTP_404_NOT_FOUND => tbl2 = tbl

\* C22: for an authorized administrator, an update that answers 200
\* rewrites the addressed row alone: the supplied fields take the supplied
\* values, updated_at is the instant of the request, id, created_at (a
\* page's slug) and the unsupplied fields are kept, the other rows and the
\* other tables are untouched; an update or a delete of an id that is not
\* stored answers 404 and changes nothing.
C22_UpdateChangesOnlySupplied ==
    /\ [](\A b \in HeldBearers, i \in TargetIds :
            Admitted(users, b, now)
              => /\ \A r \in PageChanges :
                       UpdateFrame(pages, update_page(users, b, now, pages, i, r), i, r, now)
                 /\ \A r \in TestimonialChanges :
                       UpdateFrame(testimonials, update_testimonial(users, b, now, testimonials, i, r), i, r, now)
                 /\ \A r \in FaqChanges :
                       UpdateFrame(faqs, update_faq(users, b, now, faqs, i, r), i, r, now)
                 /\ \A r \in DisclaimerChanges :
                       UpdateFrame(disclaimers, update_disclaimer(users, b, now, disclaimers, i, r), i, r, now)
                 /\ \A r \in UpdateConsultationRequestRequests :
                       UpdateFrame(forms, update_contact_form(users, b, now, forms, i, r), i, r, now)
                 /\ DeleteFrame(pages, delete_page(users, b, now, pages, i), i)
                 /\ DeleteFrame(testimonials, delete_testimonial(users, b, now, testimonials, i), i)
                 /\ DeleteFrame(faqs, delete_faq(users, b, now, faqs, i), i)
                 /\ DeleteFrame(disclaimers, delete_disclaimer(users, b, now, disclaimers, i), i)
                 /\ DeleteFrame(forms, delete_contact_form(users, b, now, forms, i), i))
    /\ [][/\ OneRow({"update_page", "delete_page"}, last', pages, pages')
          /\ OneRow({"update_testimonial", "delete_testimonial"}, last',
                    testimonials, testimonials')
          /\ OneRow({"update_faq", "delete_faq"}, last', faqs, faqs')
          /\ OneRow({"update_disclaimer", "delete_disclaimer"}, last',
                    disclaimers, disclaimers')
          /\ OneRow({"update_contact_form", "delete_contact_form"}, last',
                    forms, forms')
          /\ last'.op \in {"update_page", "delete_page"}
                => UNCHANGED <<users, testimonials, faqs, disclaimers, forms, nextId>>
          /\ last'.op \in {"update_testimonial", "delete_testimonial"}
                => UNCHANGED <<users, pages, faqs, disclaimers, forms, nextId>>
          /\ last'.op \in {"update_faq", "delete_faq"}
                => UNCHANGED <<users, pages, testimonials, disclaimers, forms, nextId>>
          /\ last'.op \in {"update_disclaimer", "delete_disclaimer"}
                => UNCHANGED <<users, pages, testimonials, faqs, forms, nextId>>
          /\ last'.op \in {"update_contact_form", "delete_contact_form"}
                => UNCHANGED <<users, pages, testimonials, faqs, disclaimers, nextId>>
         ]_vars

\* An update of a page answered 200 with the row it rewrote: the title is
\* the one supplied, updated_at moved to the instant of the request, slug,
\* created_at and is_published are those of the seed, and the other page
\* is as it was created.
C22_Witness ==
    /\ last.op = "update_page"
    /\ last.status = HTTP_200_OK
    /\ Cardinality(pages) = MaxRows
    /\ \E new \in pages : \E old \in SeedPages :
          /\ last.body = <<PageResponse(new)>>
          /\ new = [old EXCEPT !.title = "Start", !.updated_at = now]
          /\ new.updated_at > new.created_at
          /\ pages \ {new} = SeedPages \ {old}

Max(a, b) == IF a > b THEN a ELSE b

\* ceil(total / limit)
PagesOf(total, limit) == (total + limit - 1) \div limit

\* resp[q, n, l] is the response of a list endpoint to page n with limit l
\* when its statement returns the matching rows in the order q.  Every
\* response carries the number of matching rows as total; its items are
\* min(l, max(0, total - (n - 1) * l)) many.
CountsRight(matching, orders, resp) ==
    \A q \in orders, n \in ListPageNumbers, l \in ListLimits :
       /\ resp[q, n, l].status = HTTP_200_OK
       /\ resp[q, n, l].total = Cardinality(matching)
       /\ Len(resp[q, n, l].body)
             = Min(l, Max(0, Cardinality(matching) - (n - 1) * l))

\* Reading the pages 1..ceil(total / l), one request each, shows every
\* matching row exactly once; read[p] is the order the statement of the
\* request for page p returned.
CoversOnce(matching, orders, resp) ==
    \A l \in ListLimits :
       LET toRead == 1..PagesOf(Cardinality(matching), l)
       IN \A read \in [toRead -> orders] :
             \A m \in matching :
                Cardinality({pos \in toRead \X (1..l) :
                               /\ pos[2] <= Len(resp[read[pos[1]], pos[1], l].body)
                               /\ resp[read[pos[1]], pos[1], l].body[pos[2]].id = m.id})
                   = 1

Paginates(matching, orders, resp) ==
    CountsRight(matching, orders, resp) /\ CoversOnce(matching, orders, resp)

\* C23: for page >= 1 and a limit within bounds, every admin list endpoint
\* answers with total equal to the number of rows matching the filter,
\* whatever the page and the limit, and with min(limit, max(0, total -
\* (page - 1) * limit)) items; the requests for pages 1..ceil(total / limit)
\* with one limit and one filter show every matching row exactly once.
C23_PaginationCoversOnce ==
    \A b \in HeldBearers :
       Admitted(users, b, now)
         => /\ Paginates(pages, PageOrders(pages),
                  [q \in PageOrders(pages), n \in ListPageNumbers, l \in ListLimits |->
                      list_pages(users, b, now, pages, n, l, q).response])
            /\ \A f \in Flags :
                  /\ Paginates(TestimonialMatching(testimonials, f),
                        TestimonialOrders(testimonials, f),
                        [q \in TestimonialOrders(testimonials, f), n \in ListPageNumbers, l \in ListLimits |->
                            list_testimonials(users, b, now, testimonials, n, l, f, q).response])
                  /\ Paginates(FAQItemMatching(faqs, f), FaqOrders(faqs, f),
                        [q \in FaqOrders(faqs, f), n \in ListPageNumbers, l \in ListLimits |->
                            list_faqs(users, b, now, faqs, n, l, f, q).response])
                  /\ Paginates(DisclaimerMatching(disclaimers, f),
                        DisclaimerOrders(disclaimers, f),
                        [q \in DisclaimerOrders(disclaimers, f), n \in ListPageNumbers, l \in ListLimits |->
                            list_disclaimers(users, b, now, disclaimers, n, l, f, q).response])
            /\ \A f \in StatusFilters :
                  Paginates(ConsultationRequestMatching(forms, f),
                        ContactFormOrders(forms, f),
                        [q \in ContactFormOrders(forms, f), n \in ListPageNumbers, l \in ListLimits |->
                            list_contact_forms(users, b, now, forms, n, l, f, q).response])

=============================================================================
